---- MODULE Spec2Model ----
(***************************************************************************)
(* State-machine model of the AI-enrichment client                         *)
(* (backend/core/scripts/ai/openai_api.py): the rate limiter, the retry    *)
(* policy declared on complete(), the body of complete(), the prediction   *)
(* orchestrators and save_prediction.                                      *)
(*                                                                         *)
(* Time is a discrete clock `now` (the value time.time() returns).  A      *)
(* cooperative task runs without interruption between two suspension       *)
(* points: the await of asyncio.sleep in the rate limiter, the await of    *)
(* the provider request, the sleep of the retry policy and the awaits of   *)
(* the persistence collaborator.  Each action below is one such run.       *)
(*                                                                         *)
(* The provider, the persistence collaborator and the clock are the        *)
(* environment: their outcomes are chosen nondeterministically.  The       *)
(* provider call is awaited, as line 137 writes it.                        *)
(*                                                                         *)
(* complete() and the orchestrators are modelled as the coroutine          *)
(* functions their `async def` blocks define, complete() driven by the     *)
(* retry policy of lines 89-93 (tenacity, as its current releases          *)
(* behave).  The actions do not include the log_execution_time wrapper     *)
(* that lines 94, 209, 316, 371, 410 and 442 put around them; what that    *)
(* decorator does to a call is modelled on its own (SpecWrap).             *)
(*                                                                         *)
(* search_and_import (scripts/data_collection/openfoodfacts_api.py) is a   *)
(* synchronous function: its steps are the return of the search and one    *)
(* pass of its loop per candidate (SpecImport).                            *)
(***************************************************************************)
EXTENDS Integers, Sequences, FiniteSets, TLC

\* ------------------------------------------------------------------ bounds
MaxDelay == 3        \* largest rate_limit_delay a client is constructed with
Horizon  == 6        \* number of clock ticks explored after construction
MaxCalls == 2        \* complete() calls one caller issues one after another
MaxMsgs  == 3        \* longest message sequence handed to complete()
MaxSaves == 1        \* save_prediction calls one caller issues
MaxInvocations == 1  \* orchestrator invocations one caller issues
MaxKeys == 3         \* most keys of a decoded mapping
MaxHits == 3         \* most products a search returns
MaxArgs == 2         \* most positional arguments a caller passes

Tasks == {1, 2}      \* cooperative tasks sharing one client

\* time.time() at construction: far more than rate_limit_delay after 0, the
\* initial last_request_time, so that the first request never sleeps.
StartTime == MaxDelay + 1
MaxTime   == StartTime + Horizon

None == "None"

\* ------------------------------------------------------- provider outcomes
\* retry_if_exception_type((RateLimitError, APITimeoutError, APIConnectionError))
TransientErrors == {"RateLimitError", "APITimeoutError", "APIConnectionError"}
\* any other failure of the provider call
OtherErrors == {"BadRequestError"}

\* The texts a completed response carries: a JSON object, a JSON array, or
\* something that is not JSON.
Texts == {"json_object", "json_array", "not_json"}

\* What `await self.client.responses.create(...)` can produce: it raises, or
\* it returns a response with a status (and, when incomplete, a reason).
ProviderOutcomes ==
    [raises : TransientErrors \cup OtherErrors, status : {None},
     reason : {None}, output_text : {None}]
    \cup [raises : {None}, status : {"completed"}, reason : {None},
          output_text : Texts]
    \cup [raises : {None}, status : {"incomplete"},
          reason : {"max_output_tokens", "content_filter", "other"},
          output_text : {None}]
    \cup [raises : {None}, status : {"failed"}, reason : {None},
          output_text : {None}]

NoOutcome == [raises |-> None, status |-> None, reason |-> None,
              output_text |-> None]

\* ------------------------------------------------------------- exceptions
\* An exception value: its type, its message, and the attempt of complete()
\* that raised it (its identity).  RetryError carries the type of the
\* exception of the last attempt in `cause`.
NoExc == [type |-> None, msg |-> None, attempt |-> 0, cause |-> None]

Exc(type, msg, n) == [type |-> type, msg |-> msg, attempt |-> n, cause |-> None]

\* Result of an operation: it returned a value or raised an exception.
NoResult == [kind |-> "none", value |-> None, exc |-> NoExc]
Returned(v) == [kind |-> "return", value |-> v, exc |-> NoExc]
Raised(e) == [kind |-> "raise", value |-> None, exc |-> e]

\* ---------------------------------------------------------------- messages
Roles == {"system", "user", "assistant"}
Contents == {"c1", "c2"}
Message == [role : Roles, content : Contents]

SeqsUpTo(S, n) == UNION {[1..k -> S] : k \in 0..n}

AllMessages == SeqsUpTo(Message, MaxMsgs)

\* What TemplateManager.create_messages_from_template hands the
\* orchestrators: a system message followed by a user message.
RenderedMessages ==
    {<<[role |-> "system", content |-> "c1"], [role |-> "user", content |-> "c2"]>>}

\* The for-loop of complete() over `messages`: every message with role
\* "system" assigns instructions, every message with role "user" assigns
\* user_message (there is no break).
RECURSIVE SplitLoop(_, _, _, _)
SplitLoop(messages, i, instructions, user_message) ==
    IF i > Len(messages) THEN <<instructions, user_message>>
    ELSE IF messages[i].role = "system"
         THEN SplitLoop(messages, i + 1, messages[i].content, user_message)
    ELSE IF messages[i].role = "user"
         THEN SplitLoop(messages, i + 1, instructions, messages[i].content)
    ELSE SplitLoop(messages, i + 1, instructions, user_message)

\* Variant: the loop keeps the first message of each role.
RECURSIVE SplitLoopFirst(_, _, _, _)
SplitLoopFirst(messages, i, instructions, user_message) ==
    IF i > Len(messages) THEN <<instructions, user_message>>
    ELSE IF messages[i].role = "system" /\ instructions = None
         THEN SplitLoopFirst(messages, i + 1, messages[i].content, user_message)
    ELSE IF messages[i].role = "user" /\ user_message = None
         THEN SplitLoopFirst(messages, i + 1, instructions, messages[i].content)
    ELSE SplitLoopFirst(messages, i + 1, instructions, user_message)

SplitMessagesFirstWins(messages) == SplitLoopFirst(messages, 1, None, None)

SplitMessages(messages) == SplitLoop(messages, 1, None, None)

\* ------------------------------------------------------------ retry policy
\* stop_after_attempt(3)
StopAfterAttempt == 3
\* wait_exponential(multiplier=1, min=2, max=30)
WaitMultiplier == 1
WaitMin == 2
WaitMax == 30

Min2(a, b) == IF a < b THEN a ELSE b
Max2(a, b) == IF a > b THEN a ELSE b

\* Variant: the exponent is the attempt number itself.
wait_exponential_pow_n(attempt_number) ==
    Max2(WaitMin, Min2(WaitMultiplier * 2 ^ attempt_number, WaitMax))

\* tenacity's wait_exponential after attempt number n:
\* max(min, min(multiplier * 2 ** (n - 1), max)).
wait_exponential(attempt_number) ==
    Max2(WaitMin, Min2(WaitMultiplier * 2 ^ (attempt_number - 1), WaitMax))

\* Variant: every failure is retried.
ShouldRetryAnyFailure(result) == result.kind = "raise"

\* retry_if_exception_type: is this attempt's result retried?
ShouldRetry(result) ==
    result.kind = "raise" /\ result.exc.type \in TransientErrors

\* Variant: one attempt too many.
ShouldStopOffByOne(attempt_number) == attempt_number > StopAfterAttempt

\* stop_after_attempt
ShouldStop(attempt_number) == attempt_number >= StopAfterAttempt

\* What the retry policy raises once it stops: no reraise=True is given, so
\* tenacity raises RetryError holding the last attempt.
RetryExhausted(result) ==
    Raised([type |-> "RetryError", msg |-> None,
            attempt |-> result.exc.attempt, cause |-> result.exc.type])

\* ------------------------------------------------- one attempt of complete
\* Variant: without the final raise an unknown status falls off the end of
\* the function, which returns None.
AttemptResultSilent(out, n) ==
    IF out.raises # None THEN Raised(Exc(out.raises, None, n))
    ELSE IF out.status = "incomplete" /\ out.reason = "max_output_tokens"
         THEN Raised(Exc("ValueError", "Response incomplete due to output token limit", n))
    ELSE IF out.status = "incomplete" /\ out.reason = "content_filter"
         THEN Raised(Exc("ValueError", "Response incomplete due to content filter", n))
    ELSE IF out.status = "completed" THEN Returned(out.output_text)
    ELSE Returned(None)

\* Lines 137-166: the value or exception one attempt ends with, given what
\* the provider call produced.  The except clause logs and re-raises.
AttemptResult(out, n) ==
    IF out.raises # None THEN Raised(Exc(out.raises, None, n))
    ELSE IF out.status = "incomplete" /\ out.reason = "max_output_tokens"
         THEN Raised(Exc("ValueError", "Response incomplete due to output token limit", n))
    ELSE IF out.status = "incomplete" /\ out.reason = "content_filter"
         THEN Raised(Exc("ValueError", "Response incomplete due to content filter", n))
    ELSE IF out.status = "completed" THEN Returned(out.output_text)
    ELSE Raised(Exc("ValueError", "Unexpected response status", n))

\* ----------------------------------------------------- persistence records
\* The food records the persistence collaborator holds, by id, with the
\* fields save_prediction touches.
FoodIds == {"food_1"}
\* A food_id that resolves to no record.
UnknownFoodId == "food_x"

PredictionTypes ==
    {"brain_nutrients", "bioactive_compounds", "mental_health_impacts", "other_type"}

\* Prediction data handed to save_prediction.
PredictionData == {"data_1", "data_2"}

InitialRecord ==
    [brain_nutrients |-> "old_brain_nutrients",
     bioactive_compounds |-> "old_bioactive_compounds",
     mental_health_impacts |-> "old_mental_health_impacts",
     brain_nutrients_source |-> "measured",
     impacts_source |-> "measured"]

NoRecord == [brain_nutrients |-> None, bioactive_compounds |-> None,
             mental_health_impacts |-> None, brain_nutrients_source |-> None,
             impacts_source |-> None]

\* db_client.get_food_by_id_or_name(food_id): the record, or nothing.
get_food_by_id_or_name(db, food_id) ==
    IF food_id \in DOMAIN db THEN db[food_id] ELSE NoRecord

\* db_client.import_food_from_json(food_data): the whole record replaces the
\* stored one.
import_food_from_json(db, food_id, food_data) ==
    [db EXCEPT ![food_id] = food_data]

\* Variant: every prediction type marks both provenance flags.
UpdateRecordAlwaysFlags(food_data, prediction_type, data) ==
    IF prediction_type = "brain_nutrients"
    THEN [food_data EXCEPT !.brain_nutrients = data,
                           !.brain_nutrients_source = "ai_generated",
                           !.impacts_source = "ai_generated"]
    ELSE IF prediction_type = "bioactive_compounds"
    THEN [food_data EXCEPT !.bioactive_compounds = data,
                           !.brain_nutrients_source = "ai_generated",
                           !.impacts_source = "ai_generated"]
    ELSE IF prediction_type = "mental_health_impacts"
    THEN [food_data EXCEPT !.mental_health_impacts = data,
                           !.brain_nutrients_source = "ai_generated",
                           !.impacts_source = "ai_generated"]
    ELSE food_data

\* Lines 191-199: the loaded record updated with the prediction.
UpdateRecord(food_data, prediction_type, data) ==
    IF prediction_type = "brain_nutrients"
    THEN [food_data EXCEPT !.brain_nutrients = data,
                           !.brain_nutrients_source = "ai_generated"]
    ELSE IF prediction_type = "bioactive_compounds"
    THEN [food_data EXCEPT !.bioactive_compounds = data]
    ELSE IF prediction_type = "mental_health_impacts"
    THEN [food_data EXCEPT !.mental_health_impacts = data,
                           !.impacts_source = "ai_generated"]
    ELSE food_data

NoArgs == [food_id |-> None, prediction_type |-> None, data |-> None]

\* ------------------------------------------------------------ orchestrators
Orchestrators ==
    {"predict_nutrients", "predict_bioactive_compounds",
     "predict_mental_health_impacts", "extract_mechanism", "calibrate_confidence"}

\* The prediction type an orchestrator saves under, None when its body holds
\* no call of save_prediction.
SavedAs(orchestrator) ==
    IF orchestrator = "predict_nutrients" THEN "brain_nutrients"
    ELSE IF orchestrator = "predict_bioactive_compounds" THEN "bioactive_compounds"
    ELSE None

\* ------------------------------------------------------ decoded JSON values
\* The keys of a decoded mapping are strings.  A key is kept as the sequence
\* of the pieces the code looks at, so that startswith, the substring test
\* and the f-strings of lines 257-286 and 350-356 are computed on it:
\* "omega3_epa_mg" is <<"omega3_", "epa_mg">>, "confidence_omega3" is
\* <<"confidence_", "omega3">>, "total_g" is <<"total_g">>.
Values == {5, 100}

EmptyItems == [k \in {} |-> 0]

\* None, for an attribute that holds a value once it is set.
Unset == <<>>

\* A value the try blocks handle: a decoded JSON value, a schema object, or
\* what an orchestrator returns.  `items` are the entries of a mapping,
\* `truthy` is bool(value).
Val(shape, items, truthy) ==
    [shape |-> shape, items |-> items, truthy |-> truthy,
     omega3 |-> Unset, confidence |-> EmptyItems,
     error |-> None, raw_response |-> FALSE, original_data |-> FALSE]

JsonMapping(items) == Val("mapping", items, DOMAIN items # {})
JsonList(n) == Val("list", EmptyItems, n > 0)
JsonNumber(n) == Val("number", EmptyItems, n # 0)

\* Mappings with at most MaxKeys of the keys K.
MappingsOver(K) ==
    {JsonMapping(items) :
        items \in UNION {[D -> Values] :
                            D \in {D \in SUBSET K : Cardinality(D) <= MaxKeys}}}

\* ------------------------------------------------------------ schema types
\* BrainNutrients(): the plain nutrient attributes; omega3 is None.
BrainNutrientFields == {<<"choline_mg">>, <<"zinc_mg">>}

\* Attributes every Python object has, and which refuse a number.
ObjectAttributes == {<<"__class__">>}

BrainNutrients(fields, omega3) ==
    [Val("BrainNutrients", fields, TRUE) EXCEPT !.omega3 = omega3]

BioactiveCompounds(compounds, confidence) ==
    [Val("BioactiveCompounds", compounds, TRUE) EXCEPT !.confidence = confidence]

\* NutrientInteraction(), and its to_dict().
NutrientInteraction == Val("NutrientInteraction", EmptyItems, TRUE)
to_dict(obj) == JsonMapping(obj.items)

\* JSONParser.validate_json_schema(data, required_fields).
validate_json_schema(data, required_fields) ==
    \A i \in 1..Len(required_fields) : required_fields[i] \in DOMAIN data.items

\* JSONParser.parse_json(response, fallback): the decoded value when the
\* text is JSON, the fallback otherwise.  The provider's json_object text
\* stands for {"choline_mg": 5}, its json_array text for a list of one item.
parse_json(text, fallback) ==
    IF text = "json_object"
    THEN JsonMapping([k \in {<<"choline_mg">>} |-> 5])
    ELSE IF text = "json_array" THEN JsonList(1)
    ELSE fallback

\* ------------------------------------------------- outcome of a try block
\* What the statements of a try block did: returned at one of the block's
\* return statements (`path`), or raised.  has_omega3 and omega3 are the
\* locals of lines 266-289 once they are assigned.
BodyReturn(path, value) ==
    [kind |-> "return", path |-> path, exc |-> None, value |-> value,
     warned |-> FALSE, has_omega3 |-> Unset, omega3 |-> Unset]

BodyRaise(type) ==
    [kind |-> "raise", path |-> "raise", exc |-> type,
     value |-> Val("none", EmptyItems, FALSE),
     warned |-> FALSE, has_omega3 |-> Unset, omega3 |-> Unset]

\* Variant: no except clause, the exception leaves the orchestrator.
HandleExceptReraise(body, error_value) == body

\* The except clauses (lines 309-314, 366-369, 406-408, 438-440, 487-490):
\* an exception of the block becomes the orchestrator's error result.
HandleExcept(body, error_value) ==
    IF body.kind = "raise"
    THEN [BodyReturn("except", error_value) EXCEPT !.exc = body.exc]
    ELSE body

\* {"error": str(e), "raw_response": response}, with "original_data" in
\* calibrate_confidence.
ErrorMapping(exc, with_original) ==
    [Val("mapping", EmptyItems, TRUE) EXCEPT
        !.error = exc, !.raw_response = TRUE, !.original_data = with_original]

\* Lines 311-313: BrainNutrients() with _error and _raw_response set.
ErrorBrainNutrients(exc) ==
    [BrainNutrients(EmptyItems, Unset) EXCEPT !.error = exc, !.raw_response = TRUE]

\* ------------------------------------------- predict_nutrients: try block
\* nutrient.startswith("confidence_") or nutrient == "reasoning"
IsMetadata(key) == key[1] = "confidence_" \/ key = <<"reasoning">>

\* str.lower() on the pieces a key is made of.
Lower(piece) == IF piece = "Omega3_" THEN "omega3_" ELSE piece

\* "omega" in nutrient.lower()
ContainsOmega(key) ==
    \E i \in 1..Len(key) : Lower(key[i]) \in {"omega3_", "omega3.", "omega3"}

\* hasattr(brain_nutrients, nutrient), for a key without "omega".
hasattr(key) == key \in BrainNutrientFields \cup ObjectAttributes

\* setattr(brain_nutrients, nutrient, value) succeeds.
Settable(key) == key \notin ObjectAttributes

TotalKeys == << <<"omega3_", "total_g">>, <<"omega3.", "total_g">>, <<"total_g">> >>
Components == <<"epa_mg", "dha_mg", "ala_mg">>
ConfidenceKeys ==
    << <<"confidence_", "omega3">>, <<"omega3_", "confidence">>,
       <<"confidence_", "omega3_", "total_g">> >>

\* Variant: the loop has no break, the last key present wins.
RECURSIVE LastPresent(_, _, _)
LastPresent(keys, i, items) ==
    IF i > Len(keys) THEN Unset
    ELSE LET rest == LastPresent(keys, i + 1, items)
         IN  IF rest # Unset THEN rest
             ELSE IF keys[i] \in DOMAIN items THEN <<items[keys[i]]>>
             ELSE Unset

\* Lines 269-273 and 286-289: the first key present sets the attribute and
\* breaks the loop.
RECURSIVE FirstPresent(_, _, _)
FirstPresent(keys, i, items) ==
    IF i > Len(keys) THEN Unset
    ELSE IF keys[i] \in DOMAIN items THEN <<items[keys[i]]>>
    ELSE FirstPresent(keys, i + 1, items)

\* Variant: the alternate spelling is the bare component name.
ComponentOfBare(component, items) ==
    LET omega_key == <<"omega3_", component>>
        alt_key == <<component>>
    IN  IF omega_key \in DOMAIN items THEN <<items[omega_key]>>
        ELSE IF alt_key \in DOMAIN items THEN <<items[alt_key]>>
        ELSE Unset

\* Lines 275-284, one component.
ComponentOf(component, items) ==
    LET omega_key == <<"omega3_", component>>
        alt_key == <<"omega3.", component>>
    IN  IF omega_key \in DOMAIN items THEN <<items[omega_key]>>
        ELSE IF alt_key \in DOMAIN items THEN <<items[alt_key]>>
        ELSE Unset

\* Lines 267-289: the Omega3() the block fills.
Omega3Of(items) ==
    [total_g |-> FirstPresent(TotalKeys, 1, items),
     epa_mg |-> ComponentOf(Components[1], items),
     dha_mg |-> ComponentOf(Components[2], items),
     ala_mg |-> ComponentOf(Components[3], items),
     confidence |-> FirstPresent(ConfidenceKeys, 1, items)]

\* Variant: the confidence loop sets has_omega3 as well.
HasOmega3OfWithConfidence(items) ==
    \/ FirstPresent(TotalKeys, 1, items) # Unset
    \/ \E c \in 1..Len(Components) : ComponentOf(Components[c], items) # Unset
    \/ FirstPresent(ConfidenceKeys, 1, items) # Unset

\* has_omega3 after line 284: set where total_g or a component was set.
HasOmega3Of(items) ==
    \/ FirstPresent(TotalKeys, 1, items) # Unset
    \/ \E c \in 1..Len(Components) : ComponentOf(Components[c], items) # Unset

\* Lines 253-307.
NutrientsBody(predicted_nutrients) ==
    IF predicted_nutrients.shape # "mapping"
    THEN BodyRaise("AttributeError")            \* no .items()
    ELSE LET items == predicted_nutrients.items
             plain == {nutrient \in DOMAIN items :
                          /\ ~IsMetadata(nutrient)
                          /\ ~ContainsOmega(nutrient)
                          /\ hasattr(nutrient)}
         IN  IF \E nutrient \in plain : ~Settable(nutrient)
             THEN BodyRaise("TypeError")        \* setattr refused
             ELSE LET has_omega3 == HasOmega3Of(items)
                      omega3 == Omega3Of(items)
                      brain_nutrients ==
                          BrainNutrients([nutrient \in plain |-> items[nutrient]],
                                         IF has_omega3 THEN <<omega3>> ELSE Unset)
                  IN  [BodyReturn("normal", brain_nutrients) EXCEPT
                          !.has_omega3 = <<has_omega3>>, !.omega3 = <<omega3>>]

NutrientsTry(predicted_nutrients) ==
    LET body == NutrientsBody(predicted_nutrients)
    IN  HandleExcept(body, ErrorBrainNutrients(body.exc))

\* --------------------------------- predict_bioactive_compounds: try block
\* f"confidence_{key}"
ConfidenceKey(key) == <<"confidence_">> \o key

\* Variant: every confidence_ key of the response is copied.
BioactiveBodyAllConfidence(predicted) ==
    IF predicted.shape # "mapping"
    THEN BodyRaise("AttributeError")
    ELSE LET items == predicted.items
             compound_keys == {key \in DOMAIN items : ~IsMetadata(key)}
             conf_keys == {key \in DOMAIN items : key[1] = "confidence_"}
         IN  BodyReturn("normal",
                BioactiveCompounds([key \in compound_keys |-> items[key]],
                                   [conf_key \in conf_keys |-> items[conf_key]]))

\* Lines 344-364.
BioactiveBody(predicted) ==
    IF predicted.shape # "mapping"
    THEN BodyRaise("AttributeError")            \* no .items()
    ELSE LET items == predicted.items
             compound_keys == {key \in DOMAIN items : ~IsMetadata(key)}
             conf_keys == {ConfidenceKey(key) : key \in compound_keys}
                              \cap DOMAIN items
         IN  BodyReturn("normal",
                BioactiveCompounds([key \in compound_keys |-> items[key]],
                                   [conf_key \in conf_keys |-> items[conf_key]]))

BioactiveTry(predicted) ==
    LET body == BioactiveBody(predicted)
    IN  HandleExcept(body, ErrorMapping(body.exc, FALSE))

\* ------------------------------- predict_mental_health_impacts: try block
\* Lines 398-404.
ImpactsBody(impacts_data) ==
    IF ~impacts_data.truthy
    THEN BodyReturn("empty", JsonList(0))
    ELSE BodyReturn("normal", impacts_data)

ImpactsTry(impacts_data) ==
    LET body == ImpactsBody(impacts_data)
    IN  HandleExcept(body, ErrorMapping(body.exc, FALSE))

\* ------------------------------------------- extract_mechanism: try block
RequiredFields ==
    << <<"primary_pathway">>, <<"detailed_steps">>, <<"key_molecules">>,
       <<"confidence">> >>

\* Lines 430-436: to_dict() is called on what parse_json returned.
MechanismBody(mechanism_data) ==
    IF mechanism_data.shape # "NutrientInteraction"
    THEN BodyRaise("AttributeError")            \* no .to_dict()
    ELSE [BodyReturn("normal", to_dict(mechanism_data)) EXCEPT
            !.warned = ~validate_json_schema(to_dict(mechanism_data),
                                             RequiredFields)]

MechanismTry(mechanism_data) ==
    LET body == MechanismBody(mechanism_data)
    IN  HandleExcept(body, ErrorMapping(body.exc, FALSE))

\* ---------------------------------------- calibrate_confidence: try block
\* Variant: only an empty value is discarded.
CalibrateBodyEmptyOnly(calibrated_data, generated_data) ==
    IF ~calibrated_data.truthy
    THEN BodyReturn("original", generated_data)
    ELSE BodyReturn("normal", calibrated_data)

\* Lines 478-485.  `"error" in calibrated_data` needs a container.
CalibrateBody(calibrated_data, generated_data) ==
    IF ~calibrated_data.truthy
    THEN BodyReturn("original", generated_data)
    ELSE IF calibrated_data.shape = "number"
    THEN BodyRaise("TypeError")
    ELSE IF <<"error">> \in DOMAIN calibrated_data.items
    THEN BodyReturn("original", generated_data)
    ELSE BodyReturn("normal", calibrated_data)

CalibrateTry(calibrated_data, generated_data) ==
    LET body == CalibrateBody(calibrated_data, generated_data)
    IN  HandleExcept(body, ErrorMapping(body.exc, TRUE))

\* ------------------------------------------------------ the five try blocks
\* The fallback each orchestrator hands parse_json.
Fallback(orchestrator, generated_data) ==
    IF orchestrator \in {"predict_nutrients", "predict_bioactive_compounds"}
    THEN JsonMapping(EmptyItems)
    ELSE IF orchestrator = "predict_mental_health_impacts" THEN JsonList(0)
    ELSE IF orchestrator = "extract_mechanism" THEN NutrientInteraction
    ELSE generated_data

TryBody(orchestrator, decoded, generated_data) ==
    IF orchestrator = "predict_nutrients" THEN NutrientsTry(decoded)
    ELSE IF orchestrator = "predict_bioactive_compounds" THEN BioactiveTry(decoded)
    ELSE IF orchestrator = "predict_mental_health_impacts" THEN ImpactsTry(decoded)
    ELSE IF orchestrator = "extract_mechanism" THEN MechanismTry(decoded)
    ELSE CalibrateTry(decoded, generated_data)

\* What an orchestrator hands back: a value it built from the response
\* (`parsed`), its empty/default structure (`default`), the caller's own
\* data (`original`), or an error-tagged result carrying the raw response.
NoOrchResult == [kind |-> "none", tag |-> None, raw_response |-> None, exc |-> NoExc]
OrchValue(tag) == [kind |-> "return", tag |-> tag, raw_response |-> None, exc |-> NoExc]
OrchErrorTagged(text) ==
    [kind |-> "return", tag |-> "error_tagged", raw_response |-> text, exc |-> NoExc]
OrchRaised(e) == [kind |-> "raise", tag |-> None, raw_response |-> None, exc |-> e]

\* The generated_data an invocation of calibrate_confidence is given.
SomeGeneratedData == JsonMapping([k \in {<<"zinc_mg">>} |-> 100])

\* The try block of each orchestrator, given the text complete() returned.
TryBlock(orchestrator, text) ==
    LET decoded == parse_json(text, Fallback(orchestrator, SomeGeneratedData))
        out == TryBody(orchestrator, decoded, SomeGeneratedData)
    IN  IF out.kind = "raise" THEN OrchRaised(Exc(out.exc, None, 0))
        ELSE IF out.path = "except" THEN OrchErrorTagged(text)
        ELSE IF out.value = SomeGeneratedData THEN OrchValue("original")
        ELSE IF out.path = "empty" \/ text = "not_json" THEN OrchValue("default")
        ELSE OrchValue("parsed")

\* ------------------------------------------- responses the try blocks see
\* Keys a nutrient response may hold: the omega-3 keys of lines 269-286,
\* other spellings of them, nutrient attributes, metadata, unknown names.
NutrientKeys ==
    {<<"omega3_", "total_g">>, <<"omega3.", "total_g">>, <<"total_g">>,
     <<"omega3_", "epa_mg">>, <<"omega3.", "epa_mg">>,
     <<"omega3_", "dha_mg">>, <<"omega3.", "dha_mg">>,
     <<"omega3_", "ala_mg">>, <<"omega3.", "ala_mg">>,
     <<"confidence_", "omega3">>, <<"omega3_", "confidence">>,
     <<"confidence_", "omega3_", "total_g">>,
     <<"Omega3_", "total_g">>, <<"epa_mg">>,
     <<"choline_mg">>, <<"confidence_", "choline_mg">>, <<"reasoning">>,
     <<"unknown_field">>, <<"__class__">>}

BioactiveKeys ==
    {<<"resveratrol">>, <<"confidence_", "resveratrol">>,
     <<"curcumin">>, <<"confidence_", "curcumin">>,
     <<"confidence_", "quercetin">>, <<"reasoning">>}

ImpactKeys == {<<"impact_type">>, <<"error">>}

MechanismKeys == {RequiredFields[i] : i \in 1..Len(RequiredFields)}

CalibrationKeys == {<<"choline_mg">>, <<"confidence_", "choline_mg">>, <<"error">>}

KeysOf(orchestrator) ==
    IF orchestrator = "predict_nutrients" THEN NutrientKeys
    ELSE IF orchestrator = "predict_bioactive_compounds" THEN BioactiveKeys
    ELSE IF orchestrator = "predict_mental_health_impacts" THEN ImpactKeys
    ELSE IF orchestrator = "extract_mechanism" THEN MechanismKeys
    ELSE CalibrationKeys

\* What parse_json decodes from a JSON text: a mapping, a list, a number.
DecodedValues(orchestrator) ==
    MappingsOver(KeysOf(orchestrator))
        \cup {JsonList(0), JsonList(1), JsonNumber(0), JsonNumber(5)}

\* The generated_data a caller hands calibrate_confidence.
GeneratedData == MappingsOver({<<"zinc_mg">>, <<"error">>})

\* The mapping an orchestrator hands save_prediction for the value it built.
PredictionOf(built) == IF built.tag = "parsed" THEN "data_1" ELSE "data_2"

\* ------------------------------------------------------- search_and_import
\* Strings are modelled as sequences of words; "" is the empty sequence.
Query == <<"Green", "Tea">>

\* str.lower(), word by word.
lower(str) ==
    [i \in DOMAIN str |->
        IF str[i] = "Green" THEN "green" ELSE IF str[i] = "Tea" THEN "tea"
        ELSE str[i]]

\* a in b, for strings.
IsSubstring(a, b) ==
    \E k \in 0..(Len(b) - Len(a)) : \A i \in 1..Len(a) : b[k + i] = a[i]

\* The products a search hit may be: `code` is None when the key is absent,
\* product_name is "" when the key is absent.
Products ==
    [code : {None, "111", "222"},
     product_name : {<<>>, <<"Green", "Tea">>, <<"green", "tea", "bags">>}]

\* search_results["hits"], at most MaxHits products; no hits when the key is
\* absent or the list is empty.
SearchResults == SeqsUpTo(Products, MaxHits)

\* Lines 83-92: the score of one product.
Score(product, query) ==
    LET product_name == lower(product.product_name)
        query_terms == lower(query)
        matched == {i \in DOMAIN query_terms :
                        IsSubstring(<<query_terms[i]>>, product_name)}
    IN  Cardinality(matched) + (IF lower(query) = product_name THEN 5 ELSE 0)

\* One candidate put into a list already sorted by descending score, behind
\* every candidate that scores at least as much (list.sort is stable).
InsertCandidate(candidate, sorted) ==
    LET ahead == Cardinality({i \in DOMAIN sorted : sorted[i].score >= candidate.score})
    IN  SubSeq(sorted, 1, ahead) \o <<candidate>> \o SubSeq(sorted, ahead + 1, Len(sorted))

\* Lines 81-96: the candidates, scored and sorted.
RECURSIVE ScoreAndSort(_, _, _)
ScoreAndSort(hits, n, query) ==
    IF n = 0 THEN <<>>
    ELSE InsertCandidate([product |-> hits[n], score |-> Score(hits[n], query)],
                         ScoreAndSort(hits, n - 1, query))

\* candidates[:limit]
SliceTo(seq, limit) ==
    IF limit >= 0 THEN SubSeq(seq, 1, Min2(limit, Len(seq)))
    ELSE SubSeq(seq, 1, Max2(Len(seq) + limit, 0))

\* What the collaborators do for one candidate: get_product raises, or
\* returns data without "product" or without "nutriments"; or it returns
\* complete data and transform_off_data raises, or import_food_from_json
\* raises, or the food is imported.
CandidateOutcomes ==
    {"get_product_raises", "no_product", "no_nutriments", "transform_raises",
     "import_raises", "imported"}

\* Lines 101-126: one pass of the loop body on one product.  `events` are the
\* collaborator calls made, "raised" when the last of them raised, "error"
\* when logger.error was called and "imported" when the food was imported;
\* `imported` is the id appended to imported_foods, if any.
LoopBody(product, query, out) ==
    IF product.code = None
    THEN [events |-> <<>>, imported |-> <<>>]
    ELSE IF ~IsSubstring(lower(query), lower(product.product_name))
    THEN [events |-> <<>>, imported |-> <<>>]
    ELSE IF out = "get_product_raises"
    THEN [events |-> <<"get_product", "raised", "error">>, imported |-> <<>>]
    ELSE IF out \in {"no_product", "no_nutriments"}
    THEN [events |-> <<"get_product">>, imported |-> <<>>]
    ELSE IF out = "transform_raises"
    THEN [events |-> <<"get_product", "transform", "raised", "error">>,
          imported |-> <<>>]
    ELSE IF out = "import_raises"
    THEN [events |-> <<"get_product", "transform", "import", "raised", "error">>,
          imported |-> <<>>]
    ELSE [events |-> <<"get_product", "transform", "import", "imported">>,
          imported |-> <<product.code>>]

\* Variant: the loop stops on the count alone.
BreakAfterImportCountOnly(count_now, limit_arg, imported) ==
    count_now >= limit_arg

\* Line 123: `if count >= limit or len(imported_foods) >= 1`.
BreakAfterImport(count_now, limit_arg, imported) ==
    count_now >= limit_arg \/ Len(imported) >= 1

\* ------------------------------------------------------ log_execution_time
\* Python values: what they are, their name, what they are closed over or
\* were called with, and the keyword names they were called with.
Obj(kind, name, inner, kwargs) ==
    [kind |-> kind, name |-> name, inner |-> inner, kwargs |-> kwargs]

NoneObj == Obj("None", "None", <<>>, {})

\* self, an OpenAIAPI
Instance == Obj("instance", "OpenAIAPI", <<>>, {})

\* Outcome of a call or of an await; `ran` lists the runs of an undecorated
\* operation: which one, with which arguments.
WrapOut(kind, value, exc, ran) ==
    [kind |-> kind, value |-> value, exc |-> exc, ran |-> ran]

\* Lines 22-36: log_execution_time(logger) returns `decorator`, closed over
\* the logger it was given, or over the root logger when given None.
log_execution_time(logger) ==
    Obj("function", "decorator",
        <<IF logger = NoneObj THEN Obj("logger", "root", <<>>, {}) ELSE logger>>,
        {})

\* Lines 26-34: decorator(func) returns `wrapper`, closed over func and the
\* logger.
decorator(closure, func) ==
    Obj("function", "wrapper", <<func, closure.inner[1]>>, {})

\* The operations of the client that carry the timing decorator.
DecoratedOperations == {"complete"} \cup Orchestrators

\* Lines 94-95, 209-210, 316-317, 371-372, 410-411, 442-443:
\* `@log_execution_time` above `async def name`, without a call: the name is
\* bound to log_execution_time(<the coroutine function>).
Decorated(name) ==
    log_execution_time(Obj("coroutine_function", name, <<>>, {}))

\* Lines 28-33: wrapper(*args, **kwargs) calls func once with its arguments,
\* logs through the logger and returns what func returned.  Calling a
\* coroutine function returns a coroutine object; its body has not run yet.
CallWrapper(closure, args, kwargs) ==
    LET func == closure.inner[1]
        logger == closure.inner[2]
    IN  IF func.kind # "coroutine_function" /\ func.kind # "function"
        THEN WrapOut("raise", NoneObj, "TypeError", <<>>)
        ELSE IF logger.kind # "logger"
        THEN WrapOut("raise", NoneObj, "AttributeError", <<>>)
        ELSE WrapOut("return", Obj("coroutine", func.name, args, kwargs), None, <<>>)

\* Calling what a decorated name is bound to.  `decorator` takes exactly one
\* positional argument, func: any other argument list is a TypeError.
CallObject(callable, args, kwargs) ==
    IF callable.kind = "coroutine_function"
    THEN WrapOut("return", Obj("coroutine", callable.name, args, kwargs), None, <<>>)
    ELSE IF callable.kind = "function" /\ callable.name = "decorator"
    THEN IF Len(args) = 1 /\ kwargs = {}
         THEN WrapOut("return", decorator(callable, args[1]), None, <<>>)
         ELSE WrapOut("raise", NoneObj, "TypeError", <<>>)
    ELSE IF callable.kind = "function" /\ callable.name = "wrapper"
    THEN CallWrapper(callable, args, kwargs)
    ELSE WrapOut("raise", NoneObj, "TypeError", <<>>)

\* Lines 89-93 around a function that is no coroutine function: tenacity
\* calls it in place; a TypeError is none of the retried types and leaves
\* the policy as it is.  A retried failure of a call that fails the same way
\* every time ends in RetryError.
CallThroughRetry(callable, args, kwargs) ==
    LET out == CallObject(callable, args, kwargs)
        r == Raised(Exc(out.exc, None, 1))
    IN  IF out.kind = "raise" /\ ShouldRetry(r)
        THEN WrapOut("raise", NoneObj, RetryExhausted(r).exc.type, <<>>)
        ELSE out

\* self.name(*args, **kwargs): the attribute is a plain function of the
\* class, so self is passed first.
CallMethod(name, args, kwargs) ==
    IF name = "complete"
    THEN CallThroughRetry(Decorated(name), <<Instance>> \o args, kwargs)
    ELSE CallObject(Decorated(name), <<Instance>> \o args, kwargs)

\* `await value`: a coroutine object runs the body of its function, once,
\* with the arguments it was created with; anything else cannot be awaited.
AwaitValue(value, body) ==
    IF value.kind = "coroutine"
    THEN WrapOut(body.kind, body.value, body.exc,
                 <<[name |-> value.name, args |-> value.inner,
                    kwargs |-> value.kwargs]>>)
    ELSE WrapOut("raise", NoneObj, "TypeError", <<>>)

\* What callers pass, and what the undecorated operation does when it runs.
ArgValues == {Obj("str", "a", <<>>, {}), Obj("str", "b", <<>>, {})}

BodyOutcomes ==
    {WrapOut("return", Obj("str", "text", <<>>, {}), None, <<>>),
     WrapOut("raise", NoneObj, "RateLimitError", <<>>),
     WrapOut("raise", NoneObj, "ValueError", <<>>)}

\* ------------------------------------------------------------------- state
VARIABLES
    now,                \* time.time()
    rate_limit_delay,   \* self.rate_limit_delay
    models,             \* self.models, read by get_model_for_task
    db_client,          \* self.db_client: None or the collaborator
    last_request_time,  \* self.last_request_time
    callers,            \* the tasks that use the client
    pc,                 \* where each task's complete() call is
    messages,           \* argument of the current complete() call
    attempt,            \* tenacity's attempt_number of the current call
    wake,               \* when a sleeping task may resume
    slept,              \* how long the rate limiter suspended the attempt
    sent,               \* <<instructions, input>> of the request in flight
    requests,           \* provider requests issued by the current call
    waits,              \* retry waits inserted so far by the current call
    response,           \* provider outcome of the latest attempt
    result,             \* what the current call returned or raised
    calls,              \* complete() calls each task has finished
    prev_request,       \* begin time of the provider request before the latest
    curr_request,       \* begin time of the latest provider request
    store,              \* the records the persistence collaborator holds
    save_pc,            \* where each task's save_prediction call is
    save_args,          \* arguments of the current save_prediction call
    loaded,             \* the record as get_food_by_id_or_name returned it
    food_data,          \* that record, updated with the prediction
    save_result,        \* what the current save_prediction call returned
    db_events,          \* what the collaborator did in the current call
    saves,              \* save_prediction calls each task has finished
    orch_pc,            \* where the orchestrator invocation is
    orch_name,          \* the orchestrator invoked
    orch_food_id,       \* its food_id argument
    orch_completion,    \* what its call of complete() returned or raised
    orch_value,         \* the value its try block built
    orch_result,        \* what the invocation returned or raised
    orch_trace,         \* the steps the invocation has taken, in order
    orch_saved,         \* what its call of save_prediction returned
    invocations,        \* orchestrator invocations finished
    try_pc,             \* where the try block under study is
    try_name,           \* the orchestrator it belongs to
    decoded,            \* what JSONParser.parse_json returned to it
    from_fallback,      \* whether that is the fallback it was handed
    generated_data,     \* the generated_data argument of calibrate_confidence
    try_out,            \* what the try block did
    sai_pc,             \* where the search_and_import call is
    limit,              \* its `limit` argument
    hits,               \* search_results["hits"]
    candidates,         \* candidates[:limit], sorted
    position,           \* the candidate the loop is at
    imported_foods,     \* the local imported_foods, unbound before line 99
    count,              \* the local count
    sai_log,            \* the warning, the collaborator calls, the errors logged
    sai_result,         \* what the call returned or raised
    wrap_pc,            \* where the call of a decorated operation is
    wrap_call,          \* the operation called, the arguments, what its body does
    wrap_out            \* what the caller got, and the runs of the body

clientVars == <<rate_limit_delay, models, db_client, callers>>

completeVars == <<last_request_time, pc, messages, attempt, wake, slept, sent,
                  requests, waits, response, result, calls, prev_request,
                  curr_request>>

saveVars == <<store, save_pc, save_args, loaded, food_data, save_result, db_events,
              saves>>

orchVars == <<orch_pc, orch_name, orch_food_id, orch_completion, orch_value,
              orch_result, orch_trace, orch_saved, invocations>>

tryVars == <<try_pc, try_name, decoded, from_fallback, generated_data, try_out>>

importVars == <<sai_pc, limit, hits, candidates, position, imported_foods, count,
                sai_log, sai_result>>

wrapVars == <<wrap_pc, wrap_call, wrap_out>>

vars == <<now, clientVars, completeVars, saveVars, orchVars, tryVars, importVars,
          wrapVars>>

\* ------------------------------------------------------------ rate limiter
\* Variant: the limiter never sleeps.
SleepNeededNever(current_time) == 0

\* _apply_rate_limiting up to its await: time to sleep, 0 when none is due.
SleepNeeded(current_time) ==
    LET time_since_last_request == current_time - last_request_time
    IN  IF time_since_last_request < rate_limit_delay
        THEN rate_limit_delay - time_since_last_request
        ELSE 0

\* Variant: line 87 records current_time, the clock value read at line 81
\* before the sleep, instead of reading the clock again.
BeginRequestStale(t) ==
    /\ last_request_time' = IF pc[t] = "rate_sleep" THEN wake[t] - slept[t] ELSE now
    /\ sent' = [sent EXCEPT ![t] = SplitMessages(messages'[t])]
    /\ requests' = [requests EXCEPT ![t] = @ + 1]
    /\ prev_request' = curr_request
    /\ curr_request' = now
    /\ pc' = [pc EXCEPT ![t] = "request"]
    /\ wake' = wake
    /\ slept' = [slept EXCEPT ![t] = IF pc[t] = "rate_sleep" THEN @ ELSE 0]

\* Line 87 followed by lines 128-143: the timestamp is recorded and the
\* provider request begins, with no suspension in between.
BeginRequest(t) ==
    /\ last_request_time' = now
    /\ sent' = [sent EXCEPT ![t] = SplitMessages(messages'[t])]
    /\ requests' = [requests EXCEPT ![t] = @ + 1]
    /\ prev_request' = curr_request
    /\ curr_request' = now
    /\ pc' = [pc EXCEPT ![t] = "request"]
    /\ wake' = wake
    /\ slept' = [slept EXCEPT ![t] = IF pc[t] = "rate_sleep" THEN @ ELSE 0]

\* Variant: only the first attempt of a call passes the rate limiter.
StartAttemptFirstOnly(t) ==
    IF attempt'[t] > 1
    THEN /\ sent' = [sent EXCEPT ![t] = SplitMessages(messages'[t])]
         /\ requests' = [requests EXCEPT ![t] = @ + 1]
         /\ prev_request' = curr_request
         /\ curr_request' = now
         /\ pc' = [pc EXCEPT ![t] = "request"]
         /\ slept' = [slept EXCEPT ![t] = 0]
         /\ UNCHANGED <<last_request_time, wake>>
    ELSE IF SleepNeeded(now) > 0
    THEN /\ pc' = [pc EXCEPT ![t] = "rate_sleep"]
         /\ wake' = [wake EXCEPT ![t] = now + SleepNeeded(now)]
         /\ slept' = [slept EXCEPT ![t] = SleepNeeded(now)]
         /\ UNCHANGED <<last_request_time, sent, requests, prev_request,
                        curr_request>>
    ELSE BeginRequest(t)

\* One attempt starts: the body of complete() runs to its first suspension.
StartAttempt(t) ==
    IF SleepNeeded(now) > 0
    THEN /\ pc' = [pc EXCEPT ![t] = "rate_sleep"]
         /\ wake' = [wake EXCEPT ![t] = now + SleepNeeded(now)]
         /\ slept' = [slept EXCEPT ![t] = SleepNeeded(now)]
         /\ UNCHANGED <<last_request_time, sent, requests, prev_request,
                        curr_request>>
    ELSE BeginRequest(t)

\* ------------------------------------------------------- complete(): steps
\* complete(task_type, messages) is entered: the first attempt starts.
EnterComplete(t, m) ==
    /\ t \in callers
    /\ pc[t] = "idle"
    /\ calls[t] < MaxCalls
    /\ messages' = [messages EXCEPT ![t] = m]
    /\ attempt' = [attempt EXCEPT ![t] = 1]
    /\ StartAttempt(t)
    /\ UNCHANGED <<waits, response, result, calls>>

\* The outcome of complete() is taken; the call's frame is gone.
LeaveComplete(t) ==
    /\ pc[t] = "done"
    /\ pc' = [pc EXCEPT ![t] = "idle"]
    /\ calls' = [calls EXCEPT ![t] = @ + 1]
    /\ messages' = [messages EXCEPT ![t] = <<>>]
    /\ attempt' = [attempt EXCEPT ![t] = 0]
    /\ sent' = [sent EXCEPT ![t] = <<None, None>>]
    /\ slept' = [slept EXCEPT ![t] = 0]
    /\ requests' = [requests EXCEPT ![t] = 0]
    /\ waits' = [waits EXCEPT ![t] = <<>>]
    /\ response' = [response EXCEPT ![t] = NoOutcome]
    /\ result' = [result EXCEPT ![t] = NoResult]
    /\ UNCHANGED <<last_request_time, wake, prev_request, curr_request>>

\* A caller invokes complete(task_type, messages).
CallComplete(t, m) ==
    /\ EnterComplete(t, m)
    /\ UNCHANGED <<now, clientVars, saveVars, orchVars, tryVars, importVars, wrapVars>>

\* asyncio.sleep of the rate limiter is over: line 87, then the request.
RateLimitWake(t) ==
    /\ pc[t] = "rate_sleep"
    /\ now >= wake[t]
    /\ UNCHANGED messages
    /\ BeginRequest(t)
    /\ UNCHANGED <<now, clientVars, attempt, waits, response, result, calls,
                   saveVars, orchVars, tryVars, importVars, wrapVars>>

\* The provider call ends; the attempt ends; the retry policy decides.
ProviderResponds(t, out) ==
    /\ pc[t] = "request"
    /\ response' = [response EXCEPT ![t] = out]
    /\ LET r == AttemptResult(out, attempt[t])
       IN  IF ShouldRetry(r)
           THEN IF ShouldStop(attempt[t])
                THEN /\ result' = [result EXCEPT ![t] = RetryExhausted(r)]
                     /\ pc' = [pc EXCEPT ![t] = "done"]
                     /\ UNCHANGED <<wake, waits>>
                ELSE /\ pc' = [pc EXCEPT ![t] = "retry_sleep"]
                     /\ wake' = [wake EXCEPT ![t] = now + wait_exponential(attempt[t])]
                     /\ waits' = [waits EXCEPT ![t] = Append(@, wait_exponential(attempt[t]))]
                     /\ UNCHANGED result
           ELSE /\ result' = [result EXCEPT ![t] = r]
                /\ pc' = [pc EXCEPT ![t] = "done"]
                /\ UNCHANGED <<wake, waits>>
    /\ UNCHANGED <<now, clientVars, last_request_time, messages, attempt, slept,
                   sent, requests, calls, prev_request, curr_request,
                   saveVars, orchVars, tryVars, importVars, wrapVars>>

\* The retry wait is over: the next attempt starts.
RetryWake(t) ==
    /\ pc[t] = "retry_sleep"
    /\ now >= wake[t]
    /\ attempt' = [attempt EXCEPT ![t] = @ + 1]
    /\ UNCHANGED messages
    /\ StartAttempt(t)
    /\ UNCHANGED <<now, clientVars, waits, response, result, calls,
                   saveVars, orchVars, tryVars, importVars, wrapVars>>

\* The caller takes the outcome of complete().
CallerResumes(t) ==
    /\ LeaveComplete(t)
    /\ UNCHANGED <<now, clientVars, saveVars, orchVars, tryVars, importVars, wrapVars>>

\* Time passes.
Tick ==
    /\ now < MaxTime
    /\ now' = now + 1
    /\ UNCHANGED <<clientVars, completeVars, saveVars, orchVars, tryVars,
                   importVars, wrapVars>>

\* ------------------------------------------------ save_prediction(): steps
\* Lines 180-186: without a collaborator False is returned at once;
\* otherwise the record is requested.
EnterSave(t, food_id, prediction_type, data) ==
    /\ t \in callers
    /\ save_pc[t] = "idle"
    /\ saves[t] < MaxSaves
    /\ save_args' = [save_args EXCEPT ![t] =
            [food_id |-> food_id, prediction_type |-> prediction_type,
             data |-> data]]
    /\ IF db_client = None
       THEN /\ save_pc' = [save_pc EXCEPT ![t] = "done"]
            /\ save_result' = [save_result EXCEPT ![t] = Returned("False")]
       ELSE /\ save_pc' = [save_pc EXCEPT ![t] = "loading"]
            /\ UNCHANGED save_result
    /\ UNCHANGED <<store, loaded, food_data, db_events, saves>>

\* The result of save_prediction is taken; the call's frame is gone.
LeaveSave(t) ==
    /\ save_pc[t] = "done"
    /\ save_pc' = [save_pc EXCEPT ![t] = "idle"]
    /\ saves' = [saves EXCEPT ![t] = @ + 1]
    /\ save_args' = [save_args EXCEPT ![t] = NoArgs]
    /\ loaded' = [loaded EXCEPT ![t] = NoRecord]
    /\ food_data' = [food_data EXCEPT ![t] = NoRecord]
    /\ save_result' = [save_result EXCEPT ![t] = NoResult]
    /\ db_events' = [db_events EXCEPT ![t] = <<>>]
    /\ UNCHANGED store

\* A caller invokes save_prediction(food_id, prediction_type, data).
CallSave(t, food_id, prediction_type, data) ==
    /\ EnterSave(t, food_id, prediction_type, data)
    /\ UNCHANGED <<now, clientVars, completeVars, orchVars, tryVars, importVars, wrapVars>>

\* Lines 186-202: get_food_by_id_or_name ends.  When it raised, or found no
\* record, False is returned; otherwise the record is updated and its
\* write-back is requested.
SaveLoaded(t, load_raises) ==
    /\ save_pc[t] = "loading"
    /\ LET loaded_record == get_food_by_id_or_name(store, save_args[t].food_id)
       IN  IF load_raises \/ loaded_record = NoRecord
           THEN /\ save_pc' = [save_pc EXCEPT ![t] = "done"]
                /\ save_result' = [save_result EXCEPT ![t] = Returned("False")]
                /\ db_events' = [db_events EXCEPT ![t] =
                        Append(@, IF load_raises THEN "load_raised"
                                  ELSE "load_nothing")]
                /\ UNCHANGED <<loaded, food_data>>
           ELSE /\ loaded' = [loaded EXCEPT ![t] = loaded_record]
                /\ food_data' = [food_data EXCEPT ![t] =
                        UpdateRecord(loaded_record, save_args[t].prediction_type,
                                     save_args[t].data)]
                /\ db_events' = [db_events EXCEPT ![t] = Append(@, "load_record")]
                /\ save_pc' = [save_pc EXCEPT ![t] = "writing"]
                /\ UNCHANGED save_result
    /\ UNCHANGED <<now, clientVars, completeVars, orchVars, tryVars, importVars, wrapVars,
                   store, save_args, saves>>

\* Variant: no except clause around the write-back.
SaveWrittenUncaught(t, write_raises) ==
    /\ save_pc[t] = "writing"
    /\ IF write_raises
       THEN /\ save_result' = [save_result EXCEPT ![t] =
                    Raised(Exc("Exception", None, 0))]
            /\ db_events' = [db_events EXCEPT ![t] = Append(@, "write_raised")]
            /\ UNCHANGED store
       ELSE /\ store' = import_food_from_json(store, save_args[t].food_id,
                                              food_data[t])
            /\ db_events' = [db_events EXCEPT ![t] = Append(@, "write_done")]
            /\ save_result' = [save_result EXCEPT ![t] = Returned("True")]
    /\ save_pc' = [save_pc EXCEPT ![t] = "done"]
    /\ UNCHANGED <<now, clientVars, completeVars, orchVars, tryVars, importVars, wrapVars,
                   save_args, loaded, food_data, saves>>

\* Lines 202-207: import_food_from_json ends.  When it raised, False is
\* returned; otherwise the record is stored and True is returned.
SaveWritten(t, write_raises) ==
    /\ save_pc[t] = "writing"
    /\ IF write_raises
       THEN /\ save_result' = [save_result EXCEPT ![t] = Returned("False")]
            /\ db_events' = [db_events EXCEPT ![t] = Append(@, "write_raised")]
            /\ UNCHANGED store
       ELSE /\ store' = import_food_from_json(store, save_args[t].food_id,
                                              food_data[t])
            /\ db_events' = [db_events EXCEPT ![t] = Append(@, "write_done")]
            /\ save_result' = [save_result EXCEPT ![t] = Returned("True")]
    /\ save_pc' = [save_pc EXCEPT ![t] = "done"]
    /\ UNCHANGED <<now, clientVars, completeVars, orchVars, tryVars, importVars, wrapVars,
                   save_args, loaded, food_data, saves>>

\* The caller takes the result of save_prediction.
SaveReturns(t) ==
    /\ LeaveSave(t)
    /\ UNCHANGED <<now, clientVars, completeVars, orchVars, tryVars, importVars, wrapVars>>

\* ------------------------------------------------------ orchestrator steps
\* An orchestrator is invoked: it renders its template and calls complete().
Invoke(name, food_id) ==
    /\ orch_pc = "idle"
    /\ invocations < MaxInvocations
    /\ orch_pc' = "completing"
    /\ orch_name' = name
    /\ orch_food_id' = food_id
    /\ orch_trace' = <<"render", "complete">>
    /\ \E m \in RenderedMessages : EnterComplete(1, m)
    /\ UNCHANGED <<now, clientVars, saveVars, orch_completion, orch_value,
                   orch_result, orch_saved, invocations, tryVars, importVars, wrapVars>>

\* complete() is over.  Its call stands before the try block: when it
\* raised, the exception leaves the orchestrator.  When it returned a text,
\* the try block runs, up to the await of save_prediction when there is one
\* (`if food_id and self.db_client`), else to the return.
CompletionOver ==
    /\ orch_pc = "completing"
    /\ pc[1] = "done"
    /\ LeaveComplete(1)
    /\ orch_completion' = result[1]
    /\ IF result[1].kind = "raise"
       THEN /\ orch_result' = OrchRaised(result[1].exc)
            /\ orch_pc' = "done"
            /\ UNCHANGED <<orch_value, orch_trace, saveVars>>
       ELSE LET built == TryBlock(orch_name, result[1].value)
            IN  IF /\ built.tag # "error_tagged"
                   /\ SavedAs(orch_name) # None
                   /\ orch_food_id # None
                   /\ db_client # None
                THEN /\ orch_value' = built
                     /\ orch_pc' = "saving"
                     /\ orch_trace' = orch_trace \o <<"parse", "persist">>
                     /\ EnterSave(1, orch_food_id, SavedAs(orch_name),
                                  PredictionOf(built))
                     /\ UNCHANGED orch_result
                ELSE /\ orch_result' = built
                     /\ orch_pc' = "done"
                     /\ orch_trace' = Append(orch_trace, "parse")
                     /\ UNCHANGED <<orch_value, saveVars>>
    /\ UNCHANGED <<now, clientVars, orch_name, orch_food_id, orch_saved,
                   invocations, tryVars, importVars, wrapVars>>

\* save_prediction is over: its result is dropped and the value is returned.
PersistenceOver ==
    /\ orch_pc = "saving"
    /\ save_pc[1] = "done"
    /\ LeaveSave(1)
    /\ orch_saved' = save_result[1]
    /\ orch_result' = orch_value
    /\ orch_value' = NoOrchResult
    /\ orch_pc' = "done"
    /\ UNCHANGED <<now, clientVars, completeVars, orch_name, orch_food_id,
                   orch_completion, orch_trace, invocations, tryVars, importVars, wrapVars>>

\* The caller takes the outcome of the orchestrator.
OrchestratorReturns ==
    /\ orch_pc = "done"
    /\ orch_pc' = "idle"
    /\ orch_name' = None
    /\ orch_food_id' = None
    /\ orch_completion' = NoResult
    /\ orch_result' = NoOrchResult
    /\ orch_trace' = <<>>
    /\ orch_saved' = NoResult
    /\ invocations' = invocations + 1
    /\ UNCHANGED <<now, clientVars, completeVars, saveVars, orch_value,
                   tryVars, importVars, wrapVars>>

\* ----------------------------------------------------------- try block step
\* The try block of one orchestrator runs on what parse_json returned.
NoTryOut == [BodyReturn("none", Val("none", EmptyItems, FALSE)) EXCEPT !.kind = "none"]

TryIdle ==
    /\ try_pc = "idle"
    /\ try_name = None
    /\ decoded = Val("none", EmptyItems, FALSE)
    /\ from_fallback = FALSE
    /\ generated_data = Val("none", EmptyItems, FALSE)
    /\ try_out = NoTryOut

TryBlockRuns ==
    /\ try_pc = "ready"
    /\ try_out' = TryBody(try_name, decoded, generated_data)
    /\ try_pc' = "done"
    /\ UNCHANGED <<now, clientVars, completeVars, saveVars, orchVars,
                   try_name, decoded, from_fallback, generated_data, importVars, wrapVars>>

\* ------------------------------------------------- search_and_import steps
ImportIdle ==
    /\ sai_pc = "idle"
    /\ limit = 0
    /\ hits = <<>>
    /\ candidates = <<>>
    /\ position = 0
    /\ imported_foods = [bound |-> FALSE, ids |-> <<>>]
    /\ count = 0
    /\ sai_log = <<>>
    /\ sai_result = [kind |-> "none", value |-> <<>>, exc |-> None]

\* Lines 65-72: search_and_import(api_client, db_client, query, limit) is
\* called and asks for the search.
CallSearchAndImport(limit_arg) ==
    /\ sai_pc = "idle"
    /\ sai_pc' = "searching"
    /\ limit' = limit_arg
    /\ UNCHANGED <<hits, candidates, position, imported_foods, count, sai_log,
                   sai_result>>
    /\ UNCHANGED <<now, clientVars, completeVars, saveVars, orchVars, tryVars,
                   wrapVars>>

\* `return imported_foods` when the loop is over (line 131).
ReturnImported(ids) == [kind |-> "return", value |-> ids, exc |-> None]

\* Lines 72-99: search_products returns.  Without hits the warning is logged
\* and line 78 reads imported_foods, a local that line 99 has not bound yet:
\* UnboundLocalError leaves the function.  With hits the candidates are
\* scored, sorted and cut to `limit`, and the loop starts.
SearchReturns ==
    /\ sai_pc = "searching"
    /\ \E search_hits \in SearchResults :
        /\ hits' = search_hits
        /\ IF search_hits = <<>>
           THEN /\ sai_log' = Append(sai_log, "warning")
                /\ sai_result' = [kind |-> "raise", value |-> <<>>,
                                  exc |-> "UnboundLocalError"]
                /\ sai_pc' = "done"
                /\ UNCHANGED <<candidates, position, imported_foods, count>>
           ELSE LET sorted == ScoreAndSort(search_hits, Len(search_hits), Query)
                    sliced == SliceTo(sorted, limit)
                IN  /\ candidates' = sliced
                    /\ count' = 0
                    /\ imported_foods' = [bound |-> TRUE, ids |-> <<>>]
                    /\ position' = 1
                    /\ IF sliced = <<>>
                       THEN /\ sai_result' = ReturnImported(<<>>)
                            /\ sai_pc' = "done"
                       ELSE /\ sai_pc' = "loop"
                            /\ UNCHANGED sai_result
                    /\ UNCHANGED sai_log
    /\ UNCHANGED limit
    /\ UNCHANGED <<now, clientVars, completeVars, saveVars, orchVars, tryVars,
                   wrapVars>>

\* Lines 100-131: the loop body runs on the candidate at `position`; the
\* loop goes on, breaks after an import, or ends, and then the function
\* returns imported_foods.
ProcessCandidate(out) ==
    /\ sai_pc = "loop"
    /\ LET pass == LoopBody(candidates[position].product, Query, out)
           ids == imported_foods.ids \o pass.imported
           counted == count + Len(pass.imported)
           stop == \/ position = Len(candidates)
                   \/ /\ pass.imported # <<>>
                      /\ BreakAfterImport(counted, limit, ids)
       IN  /\ sai_log' = sai_log \o pass.events
           /\ imported_foods' = [bound |-> TRUE, ids |-> ids]
           /\ count' = counted
           /\ IF stop
              THEN /\ sai_result' = ReturnImported(ids)
                   /\ sai_pc' = "done"
                   /\ UNCHANGED position
              ELSE /\ position' = position + 1
                   /\ UNCHANGED <<sai_pc, sai_result>>
    /\ UNCHANGED <<limit, hits, candidates>>
    /\ UNCHANGED <<now, clientVars, completeVars, saveVars, orchVars, tryVars,
                   wrapVars>>

\* ------------------------------------------- call of a decorated operation
WrapIdle ==
    /\ wrap_pc = "idle"
    /\ wrap_call = [operation |-> None, args |-> <<>>, kwargs |-> {},
                    body |-> WrapOut("none", NoneObj, None, <<>>)]
    /\ wrap_out = WrapOut("none", NoneObj, None, <<>>)

\* `self.operation(*args, **kwargs)` is evaluated.  When the call raises,
\* the caller has its outcome; when it returns, the value is awaited next.
CallDecorated ==
    /\ wrap_pc = "ready"
    /\ LET out == CallMethod(wrap_call.operation, wrap_call.args, wrap_call.kwargs)
       IN  /\ wrap_out' = out
           /\ wrap_pc' = IF out.kind = "raise" THEN "done" ELSE "awaiting"
    /\ UNCHANGED wrap_call
    /\ UNCHANGED <<now, clientVars, completeVars, saveVars, orchVars, tryVars,
                   importVars>>

\* `await` of the value the call returned.
AwaitReturned ==
    /\ wrap_pc = "awaiting"
    /\ wrap_out' = AwaitValue(wrap_out.value, wrap_call.body)
    /\ wrap_pc' = "done"
    /\ UNCHANGED wrap_call
    /\ UNCHANGED <<now, clientVars, completeVars, saveVars, orchVars, tryVars,
                   importVars>>

\* ------------------------------------------------------------ specification
\* After __init__ (lines 59-72): last_request_time = 0.
InitClient ==
    /\ now = StartTime
    /\ rate_limit_delay \in 0..MaxDelay
    /\ models = "DEFAULT_AI_MODELS"
    /\ last_request_time = 0
    /\ pc = [t \in Tasks |-> "idle"]
    /\ messages = [t \in Tasks |-> <<>>]
    /\ attempt = [t \in Tasks |-> 0]
    /\ wake = [t \in Tasks |-> 0]
    /\ slept = [t \in Tasks |-> 0]
    /\ sent = [t \in Tasks |-> <<None, None>>]
    /\ requests = [t \in Tasks |-> 0]
    /\ waits = [t \in Tasks |-> <<>>]
    /\ response = [t \in Tasks |-> NoOutcome]
    /\ result = [t \in Tasks |-> NoResult]
    /\ calls = [t \in Tasks |-> 0]
    /\ prev_request = -1
    /\ curr_request = -1
    /\ store = [f \in FoodIds |-> InitialRecord]
    /\ save_pc = [t \in Tasks |-> "idle"]
    /\ save_args = [t \in Tasks |-> NoArgs]
    /\ loaded = [t \in Tasks |-> NoRecord]
    /\ food_data = [t \in Tasks |-> NoRecord]
    /\ save_result = [t \in Tasks |-> NoResult]
    /\ db_events = [t \in Tasks |-> <<>>]
    /\ saves = [t \in Tasks |-> 0]
    /\ orch_pc = "idle"
    /\ orch_name = None
    /\ orch_food_id = None
    /\ orch_completion = NoResult
    /\ orch_value = NoOrchResult
    /\ orch_result = NoOrchResult
    /\ orch_trace = <<>>
    /\ orch_saved = NoResult
    /\ invocations = 0

\* One caller issues complete() calls one after another.
Init ==
    /\ InitClient
    /\ TryIdle
    /\ ImportIdle
    /\ WrapIdle
    /\ callers = {1}
    /\ db_client = None

Next ==
    \/ \E t \in Tasks, m \in RenderedMessages : CallComplete(t, m)
    \/ \E t \in Tasks : RateLimitWake(t)
    \/ \E t \in Tasks, out \in ProviderOutcomes : ProviderResponds(t, out)
    \/ \E t \in Tasks : RetryWake(t)
    \/ \E t \in Tasks : CallerResumes(t)
    \/ Tick

Spec == Init /\ [][Next]_vars

\* Two cooperative tasks use the client concurrently.  The provider either
\* rejects with a rate-limit error or completes.
ConcurrentOutcomes ==
    {out \in ProviderOutcomes :
        out.raises = "RateLimitError" \/ out.output_text = "json_object"}

InitConcurrent ==
    /\ InitClient
    /\ TryIdle
    /\ ImportIdle
    /\ WrapIdle
    /\ callers = Tasks
    /\ db_client = None

NextConcurrent ==
    \/ \E t \in Tasks, m \in RenderedMessages : CallComplete(t, m)
    \/ \E t \in Tasks : RateLimitWake(t)
    \/ \E t \in Tasks, out \in ConcurrentOutcomes : ProviderResponds(t, out)
    \/ \E t \in Tasks : RetryWake(t)
    \/ \E t \in Tasks : CallerResumes(t)
    \/ Tick

SpecConcurrent == InitConcurrent /\ [][NextConcurrent]_vars

\* One caller hands complete() any message sequence of at most MaxMsgs
\* messages; the clock stands still while the calls are made.
NextSplit ==
    \/ \E m \in AllMessages : CallComplete(1, m)
    \/ \E out \in ProviderOutcomes : ProviderResponds(1, out)
    \/ CallerResumes(1)

SpecSplit == Init /\ [][NextSplit]_vars

\* Two cooperative tasks call save_prediction on a client constructed with
\* or without a persistence collaborator.
InitSave ==
    /\ InitClient
    /\ TryIdle
    /\ ImportIdle
    /\ WrapIdle
    /\ callers = Tasks
    /\ db_client \in {None, "db"}

NextSave ==
    \/ \E t \in Tasks, food_id \in FoodIds \cup {UnknownFoodId},
          prediction_type \in PredictionTypes, data \in PredictionData :
            CallSave(t, food_id, prediction_type, data)
    \/ \E t \in Tasks, load_raises \in BOOLEAN : SaveLoaded(t, load_raises)
    \/ \E t \in Tasks, write_raises \in BOOLEAN : SaveWritten(t, write_raises)
    \/ \E t \in Tasks : SaveReturns(t)

SpecSave == InitSave /\ [][NextSave]_vars

\* One caller invokes the orchestrators one after another, with or without
\* a food_id, on a client constructed with or without a persistence
\* collaborator.
InitOrch ==
    /\ InitClient
    /\ TryIdle
    /\ ImportIdle
    /\ WrapIdle
    /\ callers = {1}
    /\ db_client \in {None, "db"}

NextOrch ==
    \/ \E name \in Orchestrators, food_id \in FoodIds \cup {UnknownFoodId, None} :
            Invoke(name, food_id)
    \/ RateLimitWake(1)
    \/ \E out \in ProviderOutcomes : ProviderResponds(1, out)
    \/ RetryWake(1)
    \/ CompletionOver
    \/ \E load_raises \in BOOLEAN : SaveLoaded(1, load_raises)
    \/ \E write_raises \in BOOLEAN : SaveWritten(1, write_raises)
    \/ PersistenceOver
    \/ OrchestratorReturns
    \/ Tick

SpecOrch == InitOrch /\ [][NextOrch]_vars

\* complete() has returned a text to an orchestrator and parse_json has
\* decoded it, or has returned the fallback.
InitParse ==
    /\ InitClient
    /\ callers = {1}
    /\ db_client = None
    /\ try_pc = "ready"
    /\ try_name \in Orchestrators
    /\ generated_data \in (IF try_name = "calibrate_confidence"
                           THEN GeneratedData ELSE {SomeGeneratedData})
    /\ from_fallback \in BOOLEAN
    /\ decoded \in (IF from_fallback
                    THEN {Fallback(try_name, generated_data)}
                    ELSE DecodedValues(try_name))
    /\ try_out = NoTryOut
    /\ ImportIdle
    /\ WrapIdle

NextParse == TryBlockRuns

SpecParse == InitParse /\ [][NextParse]_vars

\* One call of search_and_import, for every search result of at most MaxHits
\* products, several limits (10 is the default of line 68) and every
\* behaviour of the collaborators.  The AI client takes no part in it.
InitImport ==
    /\ InitClient
    /\ TryIdle
    /\ ImportIdle
    /\ WrapIdle
    /\ rate_limit_delay = 0
    /\ callers = {1}
    /\ db_client = "db"

NextImport ==
    \/ \E limit_arg \in {-1, 0, 1, 2, 10} : CallSearchAndImport(limit_arg)
    \/ SearchReturns
    \/ \E out \in CandidateOutcomes : ProcessCandidate(out)

SpecImport == InitImport /\ [][NextImport]_vars

\* A caller awaits one decorated operation of the client, with any
\* arguments; the body of the operation, were it run, returns or raises.
InitWrap ==
    /\ InitClient
    /\ TryIdle
    /\ ImportIdle
    /\ rate_limit_delay = 0
    /\ callers = {1}
    /\ db_client = None
    /\ wrap_pc = "ready"
    /\ wrap_call \in [operation : DecoratedOperations,
                      args : SeqsUpTo(ArgValues, MaxArgs),
                      kwargs : SUBSET {"food_id", "model"},
                      body : BodyOutcomes]
    /\ wrap_out = WrapOut("none", NoneObj, None, <<>>)

NextWrap ==
    \/ CallDecorated
    \/ AwaitReturned

SpecWrap == InitWrap /\ [][NextWrap]_vars

\* ------------------------------------------------------------------ claims

\* C1 (as stated): in any interleaving of two concurrent complete() calls,
\* two successive provider requests begin at least rate_limit_delay apart.
C1_ConcurrentSpacing ==
    prev_request >= 0 => curr_request - prev_request >= rate_limit_delay

\* C2 (as stated): when all three attempts failed with a transient failure,
\* the caller of complete() receives the third attempt's own exception.
C2_ExhaustionPropagatesLastFailure ==
    \A t \in Tasks :
        (pc[t] = "done" /\ attempt[t] = 3
            /\ response[t].raises \in TransientErrors)
        => result[t] = Raised(Exc(response[t].raises, None, 3))

\* C4: one call of complete() issues at most 3 provider requests, no retry
\* is scheduled after the third attempt, a finished call has returned or
\* raised, and a call whose latest attempt was answered `completed` (also
\* after one or two transient failures) returns that attempt's output text.
C4_BoundedRetry ==
    \A t \in Tasks :
        /\ requests[t] <= 3
        /\ attempt[t] <= 3
        /\ pc[t] = "retry_sleep" => attempt[t] < 3
        /\ pc[t] = "done" => result[t].kind \in {"return", "raise"}
        /\ (pc[t] = "done" /\ response[t].status = "completed")
            => /\ response[t].output_text \in Texts
               /\ result[t] = Returned(response[t].output_text)

\* Two transient failures, then the third attempt succeeded.
C4_Witness ==
    \E t \in Tasks :
        /\ pc[t] = "done"
        /\ requests[t] = 3
        /\ Len(waits[t]) = 2
        /\ result[t].kind = "return"

\* The provider outcome is a failure that is not one of the three transient
\* kinds: another exception, or a response whose status is not `completed`.
IsNonTransientFailure(out) ==
    /\ out # NoOutcome
    /\ out.raises \notin TransientErrors
    /\ out.status # "completed"

\* C5 (as stated): a call one of whose attempts fails non-transiently has
\* made exactly one provider request.
C5_NonTransientSingleRequest ==
    \A t \in Tasks :
        (pc[t] = "done" /\ IsNonTransientFailure(response[t]))
        => requests[t] = 1

\* C5 (amended): an attempt that fails non-transiently is not retried: the
\* call ends at once with that attempt's own exception, and no provider
\* request follows it (so exactly one request when it is the first attempt).
C5_NonTransientNotRetried ==
    \A t \in Tasks :
        IsNonTransientFailure(response[t])
        => /\ pc[t] = "done"
           /\ result[t].kind = "raise"
           /\ result[t].exc.type =
                 (IF response[t].raises # None THEN response[t].raises
                  ELSE "ValueError")
           /\ result[t].exc.attempt = attempt[t]
           /\ requests[t] = attempt[t]
           /\ attempt[t] = 1 => requests[t] = 1

\* A non-transient failure at the second attempt, after a transient one.
C5_Witness ==
    \E t \in Tasks :
        /\ pc[t] = "done"
        /\ IsNonTransientFailure(response[t])
        /\ attempt[t] = 2

\* C6 (as stated): the wait after failed attempt n is min(30, max(2, 2^n)).
C6_WaitIsPowerOfAttempt ==
    \A t \in Tasks : \A n \in DOMAIN waits[t] :
        waits[t][n] = Min2(30, Max2(2, 2 ^ n))

\* C6 (amended): the wait after failed attempt n (n = 1, 2) is
\* min(30, max(2, 2^(n-1))), that is 2 both times; the waits are
\* non-decreasing and within 2..30, and the next attempt does not start
\* before the wait is over.
C6_WaitSchedule ==
    \A t \in Tasks :
        /\ \A n \in DOMAIN waits[t] :
              /\ waits[t][n] = Min2(30, Max2(2, 2 ^ (n - 1)))
              /\ waits[t][n] = 2
              /\ waits[t][n] >= 2 /\ waits[t][n] <= 30
              /\ n > 1 => waits[t][n - 1] <= waits[t][n]
        /\ pc[t] = "retry_sleep"
            => /\ Len(waits[t]) = attempt[t]
               /\ wake[t] >= curr_request + waits[t][attempt[t]]
        /\ (callers = {t} /\ pc[t] = "request" /\ attempt[t] > 1)
            => curr_request - prev_request >= waits[t][attempt[t] - 1]

\* The third attempt has begun after both waits.
C6_Witness ==
    \E t \in Tasks : pc[t] = "request" /\ attempt[t] = 3 /\ Len(waits[t]) = 2

\* Content of the first / the last message with the given role.
IndicesOf(msgs, role) == {i \in DOMAIN msgs : msgs[i].role = role}

FirstContent(msgs, role) ==
    IF IndicesOf(msgs, role) = {} THEN None
    ELSE msgs[CHOOSE i \in IndicesOf(msgs, role) :
                \A j \in IndicesOf(msgs, role) : i <= j].content

LastContent(msgs, role) ==
    IF IndicesOf(msgs, role) = {} THEN None
    ELSE msgs[CHOOSE i \in IndicesOf(msgs, role) :
                \A j \in IndicesOf(msgs, role) : i >= j].content

\* C7 (as stated): the request carries the content of the first "system"
\* message as instructions and of the first "user" message as input.
C7_FirstOccurrenceWins ==
    pc[1] = "request"
    => sent[1] = <<FirstContent(messages[1], "system"),
                   FirstContent(messages[1], "user")>>

\* C7 (amended): the request carries the content of the LAST "system"
\* message as instructions and of the LAST "user" message as input (None
\* when there is none); messages with any other role do not affect the
\* pair; with at most one message of each role it is that message's content.
C7_LastOccurrenceWins ==
    pc[1] = "request"
    => /\ sent[1] = <<LastContent(messages[1], "system"),
                      LastContent(messages[1], "user")>>
       /\ sent[1] = SplitMessages(SelectSeq(messages[1],
                        LAMBDA m : m.role \in {"system", "user"}))
       /\ (Cardinality(IndicesOf(messages[1], "system")) <= 1
            /\ Cardinality(IndicesOf(messages[1], "user")) <= 1)
           => sent[1] = <<FirstContent(messages[1], "system"),
                          FirstContent(messages[1], "user")>>

\* A request for a sequence with two "system" messages of different content
\* and a message of another role.
C7_Witness ==
    /\ pc[1] = "request"
    /\ FirstContent(messages[1], "system") # LastContent(messages[1], "system")
    /\ IndicesOf(messages[1], "assistant") # {}

\* C8: an attempt returns the output text exactly when the response status
\* is `completed`; `incomplete` for max_output_tokens or content_filter
\* raises a failure naming that reason; every other status (`incomplete`
\* with another reason included) raises the unexpected-status failure; no
\* status ends in a silent None.
C8_StatusHandling ==
    \A t \in Tasks :
        (pc[t] = "done" /\ response[t].raises = None)
        => LET out == response[t]
               r == result[t]
               named == out.status = "incomplete"
                        /\ out.reason \in {"max_output_tokens", "content_filter"}
           IN  /\ r.kind \in {"return", "raise"}
               /\ r.kind = "return" <=> out.status = "completed"
               /\ r.kind = "return"
                   => r.value = out.output_text /\ r.value \in Texts
               /\ (out.status = "incomplete" /\ out.reason = "max_output_tokens")
                   => r.exc.msg = "Response incomplete due to output token limit"
               /\ (out.status = "incomplete" /\ out.reason = "content_filter")
                   => r.exc.msg = "Response incomplete due to content filter"
               /\ (out.status # "completed" /\ ~named)
                   => /\ r.kind = "raise"
                      /\ r.exc.type = "ValueError"
                      /\ r.exc.msg = "Unexpected response status"

\* An attempt answered `incomplete` with a reason other than the two named.
C8_Witness ==
    \E t \in Tasks :
        /\ pc[t] = "done"
        /\ response[t].status = "incomplete"
        /\ response[t].reason = "other"

\* C9: with a single caller, the limiter suspends the caller for
\* rate_limit_delay minus the time elapsed since last_request_time when that
\* is positive, records the timestamp after the suspension as the request
\* begins, and two consecutive requests begin at least rate_limit_delay apart.
C9_SequentialSpacing ==
    callers = {1}
    => /\ prev_request >= 0 => curr_request - prev_request >= rate_limit_delay
       /\ \A t \in callers :
            /\ pc[t] = "rate_sleep"
                => /\ slept[t] > 0
                   /\ slept[t] = rate_limit_delay
                                   - ((wake[t] - slept[t]) - last_request_time)
            /\ pc[t] = "request"
                => /\ last_request_time = curr_request
                   /\ slept[t] > 0 => last_request_time >= wake[t]

\* A second request that began after the limiter suspended the caller.
C9_Witness ==
    /\ callers = {1}
    /\ pc[1] = "request"
    /\ slept[1] > 0
    /\ prev_request >= 0

\* C3 (as stated): when its call of complete() failed, an orchestrator
\* returns an error-tagged result and does not raise to its caller.
C3_CompletionFailureIsErrorTagged ==
    (orch_pc = "done" /\ orch_completion.kind = "raise")
    => /\ orch_result.kind = "return"
       /\ orch_result.tag = "error_tagged"

\* C10: save_prediction always returns a boolean and never raises; it
\* returns False without any write when no collaborator is configured or
\* the food_id resolves to no record; it returns False when the load or the
\* write raised; it returns True only after the write-back completed.
C10_SaveFailsSoft ==
    \A t \in Tasks :
        save_pc[t] = "done"
        => LET r == save_result[t]
               ev == db_events[t]
               wrote == \E i \in DOMAIN ev : ev[i] \in {"write_done", "write_raised"}
           IN  /\ r.kind = "return"
               /\ r.value \in {"True", "False"}
               /\ db_client = None => r.value = "False" /\ ev = <<>>
               /\ save_args[t].food_id \notin DOMAIN store
                   => r.value = "False" /\ ~wrote
               /\ (\E i \in DOMAIN ev : ev[i] \in {"load_raised", "write_raised"})
                   => r.value = "False"
               /\ r.value = "True" <=> ev = <<"load_record", "write_done">>

\* A save whose write-back raised, after the record was loaded.
C10_Witness ==
    \E t \in Tasks :
        /\ save_pc[t] = "done"
        /\ db_events[t] = <<"load_record", "write_raised">>
        /\ save_result[t] = Returned("False")

\* The record a successful save must leave in the store, field by field.
C11_Expected(rec, prediction_type, data) ==
    [brain_nutrients |->
        IF prediction_type = "brain_nutrients" THEN data ELSE rec.brain_nutrients,
     bioactive_compounds |->
        IF prediction_type = "bioactive_compounds" THEN data
        ELSE rec.bioactive_compounds,
     mental_health_impacts |->
        IF prediction_type = "mental_health_impacts" THEN data
        ELSE rec.mental_health_impacts,
     brain_nutrients_source |->
        IF prediction_type = "brain_nutrients" THEN "ai_generated"
        ELSE rec.brain_nutrients_source,
     impacts_source |->
        IF prediction_type = "mental_health_impacts" THEN "ai_generated"
        ELSE rec.impacts_source]

\* C11: the step in which save_prediction writes back and returns True
\* leaves in the store the loaded record with the prediction's own field set
\* to the data, the brain-nutrient provenance set to ai_generated for
\* brain_nutrients, the impacts provenance set to ai_generated for
\* mental_health_impacts, no provenance touched for bioactive_compounds, and
\* every other field as it was loaded.
C11_SaveFieldEffects ==
    [][\A t \in Tasks :
        (/\ save_pc[t] = "writing"
         /\ save_pc'[t] = "done"
         /\ save_result'[t] = Returned("True"))
        => store'[save_args[t].food_id] =
               C11_Expected(loaded[t], save_args[t].prediction_type,
                            save_args[t].data)]_vars

\* C11 witness: a bioactive_compounds save has succeeded on a record whose
\* brain-nutrient provenance another save had already set; the stored record
\* has the new bioactive field and the provenance it was loaded with.
C11_Witness ==
    \E t \in Tasks :
        /\ save_pc[t] = "done"
        /\ save_result[t] = Returned("True")
        /\ save_args[t].prediction_type = "bioactive_compounds"
        /\ loaded[t].brain_nutrients_source = "ai_generated"
        /\ loaded[t].impacts_source = "measured"
        /\ store[save_args[t].food_id].bioactive_compounds = save_args[t].data
        /\ store[save_args[t].food_id].brain_nutrients_source = "ai_generated"
        /\ store[save_args[t].food_id].impacts_source = "measured"
        /\ store[save_args[t].food_id].brain_nutrients = loaded[t].brain_nutrients

\* The orchestrators whose result has a prediction type save_prediction knows.
C12_Persistable ==
    [predict_nutrients |-> "brain_nutrients",
     predict_bioactive_compounds |-> "bioactive_compounds",
     predict_mental_health_impacts |-> "mental_health_impacts"]

\* C12 (as stated): an invocation of predict_nutrients,
\* predict_bioactive_compounds or predict_mental_health_impacts that was
\* given a food_id on a client with a persistence collaborator, and whose
\* completion and parsing succeeded, has called save_prediction exactly once
\* with that food_id and its prediction type before it returns, and returns
\* the parsed value whatever save_prediction reported.
C12_AutoPersistence ==
    /\ (/\ orch_pc = "saving"
        /\ orch_name \in DOMAIN C12_Persistable)
       => /\ save_args[1].food_id = orch_food_id
          /\ save_args[1].prediction_type = C12_Persistable[orch_name]
    /\ (/\ orch_pc = "done"
        /\ orch_name \in DOMAIN C12_Persistable
        /\ orch_food_id # None
        /\ db_client # None
        /\ orch_completion.kind = "return"
        /\ orch_result = OrchValue("parsed"))
       => /\ Len(SelectSeq(orch_trace, LAMBDA step : step = "persist")) = 1
          /\ orch_saved \in {Returned("True"), Returned("False")}

\* The omega-3 value keys: the total keys and the epa/dha/ala keys in
\* either spelling.
C13_ValueKeys ==
    {<<"omega3_", "total_g">>, <<"omega3.", "total_g">>, <<"total_g">>,
     <<"omega3_", "epa_mg">>, <<"omega3.", "epa_mg">>,
     <<"omega3_", "dha_mg">>, <<"omega3.", "dha_mg">>,
     <<"omega3_", "ala_mg">>, <<"omega3.", "ala_mg">>}

\* C13 (as stated): for every decoded mapping the BrainNutrients that
\* predict_nutrients returns carries an omega3 substructure exactly when the
\* mapping holds at least one omega-3 value key (a confidence key alone
\* attaches nothing), and an error-path result carries no omega3.
C13_Omega3Presence ==
    /\ (/\ try_pc = "done"
        /\ try_name = "predict_nutrients"
        /\ decoded.shape = "mapping")
       => ((try_out.value.omega3 # Unset)
              <=> (DOMAIN decoded.items \cap C13_ValueKeys # {}))
    /\ (/\ try_pc = "done"
        /\ try_name = "predict_nutrients"
        /\ try_out.path = "except")
       => try_out.value.omega3 = Unset

\* C13 (amended): for every decoded mapping that predict_nutrients
\* reconciles without an exception, the BrainNutrients it returns carries an
\* omega3 substructure exactly when the mapping holds at least one omega-3
\* value key; whenever an omega3 is carried such a key was present; and the
\* result of the error path carries no omega3.
C13_Omega3PresenceOnReturn ==
    /\ (/\ try_pc = "done"
        /\ try_name = "predict_nutrients"
        /\ decoded.shape = "mapping"
        /\ try_out.path = "normal")
       => ((try_out.value.omega3 # Unset)
              <=> (DOMAIN decoded.items \cap C13_ValueKeys # {}))
    /\ (/\ try_pc = "done"
        /\ try_name = "predict_nutrients"
        /\ try_out.value.omega3 # Unset)
       => /\ decoded.shape = "mapping"
          /\ DOMAIN decoded.items \cap C13_ValueKeys # {}
    /\ (/\ try_pc = "done"
        /\ try_name = "predict_nutrients"
        /\ try_out.path = "except")
       => try_out.value.omega3 = Unset

\* C13 witness: a mapping whose only omega key is confidence_omega3 was
\* reconciled into a result without omega3.
C13_Witness ==
    /\ try_pc = "done"
    /\ try_name = "predict_nutrients"
    /\ decoded.shape = "mapping"
    /\ DOMAIN decoded.items = {<<"confidence_", "omega3">>, <<"choline_mg">>}
    /\ try_out.path = "normal"
    /\ try_out.has_omega3 = <<FALSE>>
    /\ try_out.value.omega3 = Unset

\* No key of the mapping contains "omega", in any case.
C14_NoOmegaKey(items) ==
    \A key \in DOMAIN items : \A i \in 1..Len(key) :
        key[i] \notin {"omega3_", "omega3.", "omega3", "Omega3_"}

\* C14 (as stated): for every decoded mapping none of whose keys contains
\* "omega", the result of predict_nutrients has no omega3 substructure.
C14_NoOmegaKeyNoOmega3 ==
    (/\ try_pc = "done"
     /\ try_name = "predict_nutrients"
     /\ decoded.shape = "mapping"
     /\ C14_NoOmegaKey(decoded.items))
    => try_out.value.omega3 = Unset

\* C14 (amended): for every decoded mapping none of whose keys contains
\* "omega" and which has no key `total_g`, the result of predict_nutrients
\* has no omega3 substructure.
C14_NoOmegaKeyNoTotalNoOmega3 ==
    (/\ try_pc = "done"
     /\ try_name = "predict_nutrients"
     /\ decoded.shape = "mapping"
     /\ C14_NoOmegaKey(decoded.items)
     /\ <<"total_g">> \notin DOMAIN decoded.items)
    => try_out.value.omega3 = Unset

\* C14 witness: a mapping with a nutrient, a bare component name and an
\* unknown name, none with "omega", was reconciled into a result that has
\* the nutrient and no omega3.
C14_Witness ==
    /\ try_pc = "done"
    /\ try_name = "predict_nutrients"
    /\ decoded.shape = "mapping"
    /\ DOMAIN decoded.items = {<<"choline_mg">>, <<"epa_mg">>, <<"unknown_field">>}
    /\ try_out.path = "normal"
    /\ DOMAIN try_out.value.items = {<<"choline_mg">>}
    /\ try_out.value.omega3 = Unset

\* The first of three keys present in the mapping, as the claim orders them.
C15_FirstOf(k1, k2, k3, items) ==
    IF k1 \in DOMAIN items THEN <<items[k1]>>
    ELSE IF k2 \in DOMAIN items THEN <<items[k2]>>
    ELSE IF k3 \in DOMAIN items THEN <<items[k3]>>
    ELSE Unset

\* C15: whenever predict_nutrients has filled its Omega3 from a decoded
\* mapping, total_g is the value of the first present key of omega3_total_g,
\* omega3.total_g, total_g; each of epa_mg, dha_mg, ala_mg is the value of
\* omega3_<component> if present, else of omega3.<component>, else unset;
\* confidence is the value of the first present key of confidence_omega3,
\* omega3_confidence, confidence_omega3_total_g; an attached omega3 is that
\* Omega3.  {omega3_total_g: 5, omega3_epa_mg: 100} gives total_g = 5,
\* epa_mg = 100, dha_mg unset and has_omega3 true.
C15_KeyPrecedence ==
    (/\ try_pc = "done"
     /\ try_name = "predict_nutrients"
     /\ try_out.omega3 # Unset)
    => LET omega3 == try_out.omega3[1]
           items == decoded.items
       IN  /\ omega3.total_g =
                 C15_FirstOf(<<"omega3_", "total_g">>, <<"omega3.", "total_g">>,
                             <<"total_g">>, items)
           /\ \A component \in {"epa_mg", "dha_mg", "ala_mg"} :
                 omega3[component] =
                    IF <<"omega3_", component>> \in DOMAIN items
                    THEN <<items[<<"omega3_", component>>]>>
                    ELSE IF <<"omega3.", component>> \in DOMAIN items
                    THEN <<items[<<"omega3.", component>>]>>
                    ELSE Unset
           /\ omega3.confidence =
                 C15_FirstOf(<<"confidence_", "omega3">>, <<"omega3_", "confidence">>,
                             <<"confidence_", "omega3_", "total_g">>, items)
           /\ try_out.value.omega3 # Unset => try_out.value.omega3 = <<omega3>>
           /\ (/\ DOMAIN items = {<<"omega3_", "total_g">>, <<"omega3_", "epa_mg">>}
               /\ items[<<"omega3_", "total_g">>] = 5
               /\ items[<<"omega3_", "epa_mg">>] = 100)
              => /\ try_out.has_omega3 = <<TRUE>>
                 /\ try_out.value.omega3 =
                       << [total_g |-> <<5>>, epa_mg |-> <<100>>, dha_mg |-> Unset,
                           ala_mg |-> Unset, confidence |-> Unset] >>

\* C15 witness: a mapping with all three total keys, omega3_total_g = 5
\* and the other two 100, was reconciled and total_g is 5.
C15_Witness ==
    /\ try_pc = "done"
    /\ try_name = "predict_nutrients"
    /\ decoded.shape = "mapping"
    /\ DOMAIN decoded.items =
          {<<"omega3_", "total_g">>, <<"omega3.", "total_g">>, <<"total_g">>}
    /\ decoded.items[<<"omega3_", "total_g">>] = 5
    /\ decoded.items[<<"omega3.", "total_g">>] = 100
    /\ decoded.items[<<"total_g">>] = 100
    /\ try_out.value.omega3 # Unset
    /\ try_out.value.omega3[1].total_g = <<5>>

\* C16: for every decoded mapping the result of predict_bioactive_compounds
\* has as compounds exactly the entries whose key neither starts with
\* confidence_ nor is `reasoning`, and every entry of its confidence mapping
\* has a key confidence_<k> with k a key of compounds, and is the mapping's
\* entry of that key.
C16_BioactiveInvariant ==
    (/\ try_pc = "done"
     /\ try_name = "predict_bioactive_compounds"
     /\ decoded.shape = "mapping")
    => LET items == decoded.items
           compounds == try_out.value.items
           confidence == try_out.value.confidence
       IN  /\ try_out.path = "normal"
           /\ try_out.value.shape = "BioactiveCompounds"
           /\ DOMAIN compounds =
                 {key \in DOMAIN items :
                     key[1] # "confidence_" /\ key # <<"reasoning">>}
           /\ \A key \in DOMAIN compounds : compounds[key] = items[key]
           /\ \A conf_key \in DOMAIN confidence :
                 /\ conf_key[1] = "confidence_"
                 /\ Tail(conf_key) \in DOMAIN compounds
                 /\ conf_key \in DOMAIN items
                 /\ confidence[conf_key] = items[conf_key]

\* C16 witness: a response with resveratrol, its confidence and the
\* confidence of a compound it does not hold gave compounds {resveratrol}
\* and confidence {confidence_resveratrol}.
C16_Witness ==
    /\ try_pc = "done"
    /\ try_name = "predict_bioactive_compounds"
    /\ decoded.shape = "mapping"
    /\ DOMAIN decoded.items =
          {<<"resveratrol">>, <<"confidence_", "resveratrol">>,
           <<"confidence_", "quercetin">>}
    /\ DOMAIN try_out.value.items = {<<"resveratrol">>}
    /\ DOMAIN try_out.value.confidence = {<<"confidence_", "resveratrol">>}

\* C17 (as stated): when the text decodes to a mapping that lacks one of
\* primary_pathway, detailed_steps, key_molecules, confidence,
\* extract_mechanism warns and returns that mapping, not an error-tagged
\* result.
C17_PartialMechanismReturned ==
    (/\ try_pc = "done"
     /\ try_name = "extract_mechanism"
     /\ ~from_fallback
     /\ decoded.shape = "mapping"
     /\ \E field \in {<<"primary_pathway">>, <<"detailed_steps">>,
                      <<"key_molecules">>, <<"confidence">>} :
            field \notin DOMAIN decoded.items)
    => /\ try_out.kind = "return"
       /\ try_out.path = "normal"
       /\ try_out.warned
       /\ try_out.value = decoded

\* C18: when the text parses to an empty value, parses to a mapping with an
\* `error` key, or does not parse, calibrate_confidence returns the
\* generated_data it was given, by a return statement of the try block.
C18_CalibrationKeepsOriginal ==
    (/\ try_pc = "done"
     /\ try_name = "calibrate_confidence"
     /\ \/ from_fallback
        \/ ~decoded.truthy
        \/ decoded.shape = "mapping" /\ <<"error">> \in DOMAIN decoded.items)
    => /\ try_out.kind = "return"
       /\ try_out.path \in {"original", "normal"}
       /\ try_out.value = generated_data
       /\ try_out.value.error = None

\* C18 witness: the text parsed to a mapping with an `error` key and another
\* entry, and calibrate_confidence returned the generated_data, which has no
\* such key.
C18_Witness ==
    /\ try_pc = "done"
    /\ try_name = "calibrate_confidence"
    /\ ~from_fallback
    /\ DOMAIN decoded.items = {<<"error">>, <<"choline_mg">>}
    /\ DOMAIN generated_data.items = {<<"zinc_mg">>}
    /\ try_out.path = "original"
    /\ try_out.value = generated_data

\* The empty/default structure of each orchestrator.
C19_Default(orchestrator) ==
    IF orchestrator = "predict_nutrients" THEN BrainNutrients(EmptyItems, Unset)
    ELSE IF orchestrator = "predict_bioactive_compounds"
    THEN BioactiveCompounds(EmptyItems, EmptyItems)
    ELSE IF orchestrator = "predict_mental_health_impacts" THEN JsonList(0)
    ELSE IF orchestrator = "extract_mechanism" THEN JsonMapping(EmptyItems)
    ELSE generated_data

\* C19: given a text from complete(), every orchestrator's try block ends in
\* a return.  When parse_json fell back the returned value is the
\* orchestrator's empty/default structure; when a statement of the block
\* raised, it is an error-tagged result that carries the raw response.
C19_ParseFailuresRecovered ==
    try_pc = "done"
    => /\ try_out.kind = "return"
       /\ from_fallback => /\ try_out.exc = None
                           /\ try_out.value = C19_Default(try_name)
       /\ try_out.exc # None => /\ try_out.path = "except"
                                /\ try_out.value.error = try_out.exc
                                /\ try_out.value.raw_response

\* C19 witness: predict_nutrients was answered with a JSON list, .items()
\* raised, and the result is the error-tagged BrainNutrients with the raw
\* response.
C19_Witness ==
    /\ try_pc = "done"
    /\ try_name = "predict_nutrients"
    /\ decoded.shape = "list"
    /\ try_out.kind = "return"
    /\ try_out.exc = "AttributeError"
    /\ try_out.value.shape = "BrainNutrients"
    /\ try_out.value.error = "AttributeError"
    /\ try_out.value.raw_response

\* The place of a step in an orchestrator invocation.
C20_Rank(step) ==
    IF step = "render" THEN 1 ELSE IF step = "complete" THEN 2
    ELSE IF step = "parse" THEN 3 ELSE 4

\* C20: every step that issues a provider request, the first attempt's and
\* each retry's, is a step in which the rate limiter has finished: no sleep
\* was due or the sleep it asked for is over, and the step sets
\* last_request_time to the current time; each attempt issues one request.
\* The steps of an orchestrator invocation are taken in the order render,
\* complete, parse, persist, each at most once, and provider requests are
\* issued only between complete and parse.
C20_LimiterBeforeEveryRequest ==
    /\ [][\A t \in Tasks :
            requests'[t] = requests[t] + 1
            => /\ last_request_time' = now
               /\ attempt'[t] = requests'[t]
               /\ \/ now - last_request_time >= rate_limit_delay
                  \/ pc[t] = "rate_sleep" /\ now >= wake[t]
               /\ orch_trace' = <<"render", "complete">>]_vars
    /\ [](\A i, j \in 1..Len(orch_trace) :
            i < j => C20_Rank(orch_trace[i]) < C20_Rank(orch_trace[j]))

\* C20 witness: inside an orchestrator invocation the second attempt's
\* request is in flight; the limiter made it sleep first and the timestamp
\* is the time the request began.
C20_Witness ==
    /\ orch_pc = "completing"
    /\ orch_trace = <<"render", "complete">>
    /\ pc[1] = "request"
    /\ attempt[1] = 2
    /\ requests[1] = 2
    /\ slept[1] > 0
    /\ last_request_time = curr_request

\* C21: the last-request timestamp changes only in the rate-limiter step of
\* complete() (the step that begins a provider request) and only to the
\* current time, so it never decreases; no step changes the models, the
\* delay or the persistence collaborator; the steps of save_prediction and
\* the steps of an orchestrator outside its call of complete() leave the
\* timestamp alone.
C21_RateLimiterStep ==
    /\ pc[1] \in {"idle", "rate_sleep", "retry_sleep"}
    /\ pc'[1] = "request"
    /\ requests'[1] = requests[1] + 1

C21_OutsideComplete ==
    \/ save_pc' # save_pc
    \/ orch_pc \in {"saving", "done"}
    \/ (orch_pc = "completing" /\ pc[1] = "done")

C21_TimestampFrame ==
    [][/\ last_request_time' # last_request_time
            => (C21_RateLimiterStep /\ last_request_time' = now)
       /\ last_request_time' >= last_request_time
       /\ models' = models
       /\ rate_limit_delay' = rate_limit_delay
       /\ db_client' = db_client
       /\ C21_OutsideComplete => last_request_time' = last_request_time]_vars

\* C21 witness: an invocation whose call of complete() moved the timestamp
\* twice (two attempts) is inside save_prediction, the timestamp still that
\* of the second request.
C21_Witness ==
    /\ orch_pc = "saving"
    /\ save_pc[1] = "writing"
    /\ prev_request >= StartTime
    /\ curr_request > prev_request
    /\ last_request_time = curr_request

\* The prediction a record holds under a prediction type.
C22_Stored(rec, prediction_type) ==
    IF prediction_type = "brain_nutrients" THEN rec.brain_nutrients
    ELSE IF prediction_type = "bioactive_compounds" THEN rec.bioactive_compounds
    ELSE rec.mental_health_impacts

\* C22 (as stated): when two concurrent tasks have saved predictions of
\* different types (the types the orchestrators save under) for the same
\* food_id and both save_prediction calls returned True, the stored record
\* holds both predictions, whatever the order of their loads and writes.
C22_NoLostUpdate ==
    \A t1 \in Tasks, t2 \in Tasks :
        (/\ t1 # t2
         /\ save_pc[t1] = "done" /\ save_pc[t2] = "done"
         /\ save_result[t1] = Returned("True")
         /\ save_result[t2] = Returned("True")
         /\ save_args[t1].food_id = save_args[t2].food_id
         /\ save_args[t1].prediction_type # save_args[t2].prediction_type
         /\ \A t \in {t1, t2} :
                \E o \in Orchestrators : SavedAs(o) = save_args[t].prediction_type)
        => \A t \in {t1, t2} :
                C22_Stored(store[save_args[t].food_id], save_args[t].prediction_type)
                    = save_args[t].data

\* How often an event stands in a log.
C23_CountOf(log, event) == Cardinality({i \in DOMAIN log : log[i] = event})

\* C23: search_and_import imports at most one food per call, for every
\* search result and every limit: imported_foods never holds more than one
\* id, the import succeeds at most once and nothing is processed after it,
\* and the list returned is imported_foods.  A failure while a candidate is
\* processed is logged and does not leave the function: with hits, the call
\* returns only after an import or after the last candidate.
C23_AtMostOneImport ==
    /\ Len(imported_foods.ids) <= 1
    /\ C23_CountOf(sai_log, "imported") <= 1
    /\ \A i \in DOMAIN sai_log :
            /\ sai_log[i] = "imported" => (i = Len(sai_log) /\ sai_pc = "done")
            /\ sai_log[i] = "raised" => (i < Len(sai_log) /\ sai_log[i + 1] = "error")
    /\ sai_result.kind = "raise" => hits = <<>>
    /\ sai_result.kind = "return"
        => /\ sai_result.value = imported_foods.ids
           /\ Len(sai_result.value) <= 1
           /\ \/ candidates = <<>>
              \/ position = Len(candidates)
              \/ sai_log # <<>> /\ sai_log[Len(sai_log)] = "imported"

\* C23 witness: a call with a limit of at least 2 has returned one id after
\* a candidate failed and the next one was imported, a further candidate
\* left untried.
C23_Witness ==
    /\ sai_pc = "done"
    /\ sai_result.kind = "return"
    /\ Len(sai_result.value) = 1
    /\ limit >= 2
    /\ C23_CountOf(sai_log, "error") >= 1
    /\ position < Len(candidates)

\* C24 (as stated): when the search returns no hits, search_and_import logs
\* a warning and returns an empty list, without raising and without calling
\* get_product or the persistence layer.
C24_NoHitsReturnsEmpty ==
    (sai_pc = "done" /\ hits = <<>>)
        => /\ sai_result = ReturnImported(<<>>)
           /\ sai_log = <<"warning">>

\* C25 (as stated): an operation decorated with log_execution_time as the
\* client applies it, awaited with the caller's arguments, runs exactly once
\* with those arguments, and the caller (for complete(), the retry policy)
\* gets the result or the failure of that run unchanged.
C25_WrapperTransparent ==
    wrap_pc = "done"
        => /\ wrap_out.ran = <<[name |-> wrap_call.operation,
                                args |-> <<Instance>> \o wrap_call.args,
                                kwargs |-> wrap_call.kwargs]>>
           /\ wrap_out.kind = wrap_call.body.kind
           /\ wrap_out.value = wrap_call.body.value
           /\ wrap_out.exc = wrap_call.body.exc

====
